---- MODULE Spec2Model ----
(***************************************************************************)
(* A state-machine model of the MOA API (PublicIsDJ/MOA-api): the users,   *)
(* refresh_tokens, cards and shares tables, the JWT utilities and the      *)
(* service-layer operations on them.                                       *)
(*                                                                         *)
(* Time.  `now` is the wall clock in ticks; TicksPerSecond ticks make one  *)
(* clock second.  datetime.utcnow() reads `now`; a JWT stores its iat and  *)
(* exp truncated to whole seconds (jose encodes datetimes with timegm),    *)
(* database timestamps keep the tick.  Token lifetimes are scaled down to  *)
(* a few seconds so that expiry is reachable.                              *)
(*                                                                         *)
(* Optional values (Python None / SQL NULL) are sequences of length <= 1:  *)
(* None is << >> and a present value v is <<v>>.                           *)
(***************************************************************************)
EXTENDS Integers, Sequences, FiniteSets, TLC

(* ------------------------------ bounds -------------------------------- *)
\* Last clock tick the model explores.
MaxTime == 4
\* Clock resolution: ticks per second (the real clock has 10^6).
TicksPerSecond == 2
\* Lifetime of a refresh JWT in seconds (timedelta(days=7), scaled).
RefreshJwtLifeSecs == 1
\* Lifetime of a refresh-token record in seconds
\* (settings.JWT_REFRESH_TOKEN_EXPIRE_DAYS, scaled).
RefreshRecordLifeSecs == 1
\* Lifetime of an access JWT in seconds (settings.JWT_EXPIRATION_HOURS, scaled).
AccessJwtLifeSecs == 1
\* Number of user rows the model lets the users table hold.
MaxUsers == 2
\* Number of requests that may be in flight at once.
MaxReqs == 2
\* Number of share rows the model lets the shares table hold.
MaxShares == 2
\* The instant the modelled callers pass as a share's expiryDate.
ShareExpiryAt == 2
\* Number of views the model counts on one share.
MaxViews == 3
\* Number of activity records the model lets the table hold.
MaxActivities == 2
\* Length of one day in clock ticks in the share scenarios.
DayTicks == 1
\* Largest expiryDays a modelled client sends.
MaxExpiryDays == 2
\* ShareCreate.expiryDays: default, lower and upper limit.
ShareCreate_expiryDays_default == 7
ShareCreate_expiryDays_ge == 1
ShareCreate_expiryDays_le == 365

VARIABLES
    now,            \* the clock, in ticks
    users,          \* users table: surrogate id -> row
    refreshTokens,  \* refresh_tokens table: set of rows
    cards,          \* cards table: surrogate id -> row
    shares,         \* shares table: surrogate id -> row
    activities,     \* user_card_activities table: surrogate id -> row
    notifications,  \* notifications table: surrogate id -> row
    reqs,           \* requests in flight: slot -> the handler's position and locals
    last            \* the last request: its operation, inputs and outcome

vars == <<now, users, refreshTokens, cards, shares, activities, notifications,
         reqs, last>>

(* ------------------------------ values -------------------------------- *)
None == << >>
Some(v) == <<v>>
IsNone(o) == o = << >>
IsSome(o) == o # << >>
Val(o) == o[1]

UserIds == 1..MaxUsers
\* Login handles a client may type; all satisfy ^[a-zA-Z0-9._-]+$ and len >= 4.
RawHandles == {"alice", "Alice", "bob1"}
\* The handles the clients of the single-account scenarios type.
AliceHandles == {"alice", "Alice"}
Passwords == {"pw1", "pw2"}
SocialIds == {"k1"}

\* The clock second of tick t (timegm of the truncated datetime).
Sec(t) == t \div TicksPerSecond

\* str.lower() on the handles of the model.
lower(v) == IF v = "Alice" THEN "alice" ELSE v

\* UserCreate.validate_userId: the handle is stored lower-cased.
validate_userId(v) == lower(v)

\* passlib bcrypt: the hash is opaque and verifies exactly its plaintext.
hash_password(p) == [bcrypt |-> p]
verify_password(plain, hashed) == hashed.bcrypt = plain

\* hashlib.sha256(token.encode()).hexdigest(): an injective digest.
sha256(tok) == [sha256 |-> tok]

(* ------------------------------- JWT ---------------------------------- *)
\* jwt.encode of {sub, exp, iat, type}: exp and iat are whole seconds, the
\* signature is the deterministic HS256 MAC of the claims.
create_access_token(user_id, t) ==
    [sub |-> user_id, typ |-> "access", iat |-> Sec(t),
     exp |-> Sec(t + AccessJwtLifeSecs * TicksPerSecond), sig |-> "ok"]

create_refresh_token(user_id, t) ==
    [sub |-> user_id, typ |-> "refresh", iat |-> Sec(t),
     exp |-> Sec(t + RefreshJwtLifeSecs * TicksPerSecond), sig |-> "ok"]

\* Mutant: verify_token that forgets to compare the type claim.
verify_token_any_type(token, token_type, t) ==
    IF token.sig # "ok" THEN None
    ELSE IF token.exp < Sec(t) THEN None
    ELSE Some(token.sub)

\* jwt.decode raises (JWTError) on a bad signature and when exp < now (in
\* seconds); verify_token then checks the type claim and returns the subject.
verify_token(token, token_type, t) ==
    IF token.sig # "ok" THEN None
    ELSE IF token.exp < Sec(t) THEN None
    ELSE IF token.typ # token_type THEN None
    ELSE Some(token.sub)

(* --------------------------- users table ------------------------------ *)
\* Mutant: a users table created without the CHECK constraint.
chk_social_login_dropped(row) == TRUE

\* CHECK chk_social_login.
chk_social_login(row) ==
    \/ IsSome(row.password) /\ IsNone(row.socialProvider) /\ IsNone(row.socialId)
    \/ IsNone(row.password) /\ IsSome(row.socialProvider) /\ IsSome(row.socialId)

\* The unique indexes ix_users_userId and ix_users_social_login.
users_unique(us) ==
    \A i, j \in DOMAIN us : i # j =>
        /\ us[i].userId # us[j].userId
        /\ (IsSome(us[i].socialProvider) /\ IsSome(us[j].socialProvider)) =>
              <<us[i].socialProvider, us[i].socialId>> #
              <<us[j].socialProvider, us[j].socialId>>

\* What the storage layer accepts as the users table.
users_constraints(us) ==
    /\ \A i \in DOMAIN us : chk_social_login(us[i])
    /\ users_unique(us)

\* gen_random_uuid(): a fresh surrogate id.
NewUserId(us) == CHOOSE i \in UserIds \ DOMAIN us :
                    \A j \in UserIds \ DOMAIN us : i <= j

\* A write to the users table: committed if the constraints hold, otherwise
\* the statement raises IntegrityError and the table is unchanged.
users_write(us, new) ==
    IF users_constraints(new) THEN [err |-> "ok", users |-> new]
    ELSE [err |-> "IntegrityError", users |-> us]

UserRepository_create(us, row) ==
    LET id == NewUserId(us) IN
    users_write(us, [i \in DOMAIN us \cup {id} |-> IF i = id THEN row ELSE us[i]])

\* scalar_one_or_none() of the select: the set of matching ids (at most one).
UserRepository_get_by_id(us, user_id) == {i \in DOMAIN us : i = user_id}
UserRepository_get_by_userId(us, userId) == {i \in DOMAIN us : us[i].userId = userId}

UserRepository_update_last_login(us, user_id, t) ==
    [i \in DOMAIN us |-> IF i = user_id THEN [us[i] EXCEPT !.lastLoginAt = Some(t)]
                         ELSE us[i]]

UserRepository_deactivate(us, user_id) ==
    [i \in DOMAIN us |-> IF i = user_id THEN [us[i] EXCEPT !.isActive = FALSE]
                         ELSE us[i]]

\* UserService.create_user: a local account with a hashed password.
UserService_create_user(us, userId, password) ==
    UserRepository_create(us,
        [userId |-> userId, password |-> Some(hash_password(password)),
         socialProvider |-> None, socialId |-> None,
         isActive |-> TRUE, lastLoginAt |-> None])

\* UserService.create_social_user: no password, provider and provider id set.
UserService_create_social_user(us, userId, socialProvider, socialId) ==
    UserRepository_create(us,
        [userId |-> userId, password |-> None,
         socialProvider |-> Some(socialProvider), socialId |-> Some(socialId),
         isActive |-> TRUE, lastLoginAt |-> None])

\* The columns a keyword of UserRepository.update may name in the model.
UserColumns == {"password", "socialProvider", "socialId", "isActive"}

\* UserRepository.update at time t: keywords whose value is None are dropped;
\* with none left nothing is written; otherwise one UPDATE sets the rest, and
\* with it the row's updatedAt (TimestampMixin: onupdate=func.now()) where the
\* scenario keeps that column.
UserRepository_update(us, user_id, kwargs, t) ==
    LET update_data == {k \in DOMAIN kwargs : IsSome(kwargs[k])} IN
    IF update_data = {} \/ user_id \notin DOMAIN us THEN [err |-> "ok", users |-> us]
    ELSE users_write(us,
            [i \in DOMAIN us |->
                IF i # user_id THEN us[i]
                ELSE [c \in DOMAIN us[i] |->
                        IF c \in update_data
                        THEN (IF c = "isActive" THEN Val(kwargs[c]) ELSE kwargs[c])
                        ELSE IF c = "updatedAt" THEN t
                        ELSE us[i][c]]])

\* Mutant: update_password that also clears isActive.
update_password_and_deactivate(us, user_id, hashed_password) ==
    users_write(us,
        [i \in DOMAIN us |->
            IF i = user_id
            THEN [us[i] EXCEPT !.password = Some(hashed_password), !.isActive = FALSE]
            ELSE us[i]])

\* UserRepository.update_password: UPDATE users SET password = :hash.
UserRepository_update_password(us, user_id, hashed_password) ==
    users_write(us,
        [i \in DOMAIN us |->
            IF i = user_id THEN [us[i] EXCEPT !.password = Some(hashed_password)]
            ELSE us[i]])

\* UserService.update_password: hash, then store.
UserService_update_password(us, user_id, new_password) ==
    UserRepository_update_password(us, user_id, hash_password(new_password))

\* UserService.change_password_with_validation on the loaded user row.
change_password_with_validation(us, user_id, current_password, new_password) ==
    LET user == us[user_id] IN
    IF IsSome(user.socialProvider) THEN [err |-> "BadRequest", users |-> us]
    ELSE IF IsNone(user.password)
            \/ ~verify_password(current_password, Val(user.password))
    THEN [err |-> "BadRequest", users |-> us]
    ELSE UserService_update_password(us, user_id, new_password)

(* ----------------------- refresh_tokens table ------------------------- *)
\* RefreshToken.is_expired / is_valid.
is_expired(rt, t) == t > rt.expiresAt
is_valid(rt, t) == ~rt.isRevoked /\ ~is_expired(rt, t)

RefreshTokenRepository_get_by_token(rts, token) == {r \in rts : r.token = token}

\* RefreshTokenRepository.create: the insert violates the unique index on
\* token when a row with that digest exists.
RefreshTokenRepository_create(rts, user_id, token, t) ==
    IF \E r \in rts : r.token = token
    THEN [err |-> "IntegrityError", tokens |-> rts]
    ELSE [err |-> "ok",
          tokens |-> rts \cup {[userId |-> user_id, token |-> token,
                                expiresAt |-> t + RefreshRecordLifeSecs * TicksPerSecond,
                                isRevoked |-> FALSE, revokedAt |-> None]}]

\* Mutant: revoke_token that finds the row but does not mark it.
revoke_token_unmarked(rts, token, t) ==
    [found |-> \E r \in rts : r.token = token, tokens |-> rts]

RefreshTokenRepository_revoke_token(rts, token, t) ==
    IF RefreshTokenRepository_get_by_token(rts, token) = {}
    THEN [found |-> FALSE, tokens |-> rts]
    ELSE [found |-> TRUE,
          tokens |-> {IF r.token = token
                      THEN [r EXCEPT !.isRevoked = TRUE, !.revokedAt = Some(t)]
                      ELSE r : r \in rts}]

(* --------------------------- AuthService ------------------------------ *)
Outcome(status, us, rts, ret) ==
    [status |-> status, users |-> us, tokens |-> rts, ret |-> ret]

\* AuthService.register on a validated UserCreate payload.
register(us, rts, userId, password) ==
    IF UserRepository_get_by_userId(us, userId) # {}
    THEN Outcome("BadRequest", us, rts, None)
    ELSE LET w == UserService_create_user(us, userId, password) IN
         Outcome(w.err, w.users, rts, None)

\* Mutant: login that does not look at isActive.
login_inactive_allowed(us, rts, t, userId, password) ==
    LET found == UserRepository_get_by_userId(us, userId) IN
    IF found = {} THEN Outcome("Unauthorized", us, rts, None)
    ELSE
    LET id == CHOOSE i \in found : TRUE
        user == us[id]
    IN
    IF IsNone(user.password) \/ ~verify_password(password, Val(user.password))
    THEN Outcome("Unauthorized", us, rts, None)
    ELSE
    LET us1 == UserRepository_update_last_login(us, id, t)
        c == RefreshTokenRepository_create(rts, id,
                                           sha256(create_refresh_token(id, t)), t)
    IN
    IF c.err # "ok" THEN Outcome(c.err, us1, c.tokens, None)
    ELSE Outcome("ok", us1, c.tokens,
                 Some([accessToken |-> create_access_token(id, t),
                       refreshToken |-> create_refresh_token(id, t)]))

\* AuthService.login.
login(us, rts, t, userId, password) ==
    LET found == UserRepository_get_by_userId(us, userId) IN
    IF found = {} THEN Outcome("Unauthorized", us, rts, None)
    ELSE
    LET id == CHOOSE i \in found : TRUE
        user == us[id]
    IN
    IF IsNone(user.password) \/ ~verify_password(password, Val(user.password))
    THEN Outcome("Unauthorized", us, rts, None)
    ELSE IF ~user.isActive THEN Outcome("Forbidden", us, rts, None)
    ELSE
    LET us1 == UserRepository_update_last_login(us, id, t)
        access_token == create_access_token(id, t)
        refresh_token == create_refresh_token(id, t)
        c == RefreshTokenRepository_create(rts, id, sha256(refresh_token), t)
    IN
    IF c.err # "ok" THEN Outcome(c.err, us1, c.tokens, None)
    ELSE Outcome("ok", us1, c.tokens,
                 Some([accessToken |-> access_token, refreshToken |-> refresh_token]))

\* AuthService.refresh_access_token.
refresh_access_token(us, rts, t, refresh_token) ==
    LET user_id == verify_token(refresh_token, "refresh", t) IN
    IF IsNone(user_id) THEN Outcome("Unauthorized", us, rts, None)
    ELSE
    LET token_hash == sha256(refresh_token)
        stored == RefreshTokenRepository_get_by_token(rts, token_hash)
    IN
    IF stored = {} THEN Outcome("Unauthorized", us, rts, None)
    ELSE IF ~is_valid(CHOOSE r \in stored : TRUE, t)
    THEN Outcome("Unauthorized", us, rts, None)
    ELSE IF UserRepository_get_by_id(us, Val(user_id)) = {}
    THEN Outcome("Unauthorized", us, rts, None)
    ELSE IF ~us[Val(user_id)].isActive THEN Outcome("Forbidden", us, rts, None)
    ELSE
    LET rv == RefreshTokenRepository_revoke_token(rts, token_hash, t)
        new_access_token == create_access_token(Val(user_id), t)
        new_refresh_token == create_refresh_token(Val(user_id), t)
        c == RefreshTokenRepository_create(rv.tokens, Val(user_id),
                                           sha256(new_refresh_token), t)
    IN
    IF c.err # "ok" THEN Outcome(c.err, us, c.tokens, None)
    ELSE Outcome("ok", us, c.tokens,
                 Some([accessToken |-> new_access_token,
                       refreshToken |-> new_refresh_token]))

\* AuthService.logout: revoke the record of the presented token.
logout(us, rts, t, refresh_token) ==
    LET rv == RefreshTokenRepository_revoke_token(rts, sha256(refresh_token), t) IN
    Outcome(IF rv.found THEN "true" ELSE "false", us, rv.tokens, None)

(* ------------------------- route dependencies ------------------------- *)
\* get_current_user: the bearer credential must verify as an access token
\* and its subject must be a stored user.
get_current_user(us, t, token) ==
    LET user_id == verify_token(token, "access", t) IN
    IF IsNone(user_id) THEN [status |-> "Unauthorized", user |-> None]
    ELSE IF Val(user_id) \notin DOMAIN us
    THEN [status |-> "Unauthorized", user |-> None]
    ELSE [status |-> "ok", user |-> user_id]

\* Mutant: get_current_active_user that does not look at isActive.
get_current_active_user_unchecked(us, t, token) == get_current_user(us, t, token)

\* get_current_active_user.
get_current_active_user(us, t, token) ==
    LET cu == get_current_user(us, t, token) IN
    IF cu.status # "ok" THEN cu
    ELSE IF ~us[Val(cu.user)].isActive THEN [status |-> "Forbidden", user |-> None]
    ELSE cu

(* -------------------------- the environment --------------------------- *)
\* Tokens clients hold: every refresh token the server returned has a record
\* (its digest), and each was returned with the access token of the same
\* subject and second.  Clients may also present a tampered copy.
IssuedRefresh == {r.token.sha256 : r \in refreshTokens}
IssuedAccess == {create_access_token(tk.sub, tk.iat * TicksPerSecond) : tk \in IssuedRefresh}
Presentable == IssuedRefresh \cup IssuedAccess
                 \cup {[tk EXCEPT !.sig = "bad"] : tk \in IssuedRefresh}

\* The record of a request: the operation, its status, the token presented
\* (if any) and the value returned (if any).
Request(op, status, token, ret) ==
    [op |-> op, status |-> status, token |-> token, ret |-> ret]

\* Tables and requests the authentication scenarios leave alone.
AuthFrame == UNCHANGED <<cards, shares, activities, notifications, reqs>>

Init ==
    /\ now = 0
    /\ users = << >>
    /\ refreshTokens = {}
    /\ cards = << >>
    /\ shares = << >>
    /\ activities = << >>
    /\ notifications = << >>
    /\ reqs = << >>
    /\ last = Request("init", "ok", None, None)

\* Time passes.
Tick ==
    /\ now < MaxTime
    /\ now' = now + 1
    /\ last' = Request("tick", "ok", None, None)
    /\ UNCHANGED <<users, refreshTokens>>
    /\ AuthFrame

\* POST /auth/register: the payload is validated (handle lower-cased), then
\* AuthService.register runs.
Register(h, p) ==
    /\ Cardinality(DOMAIN users) < MaxUsers
    /\ LET r == register(users, refreshTokens, validate_userId(h), p) IN
       /\ users' = r.users
       /\ last' = Request("register", r.status, None, None)
    /\ UNCHANGED <<now, refreshTokens>>
    /\ AuthFrame

\* POST /auth/login.
Login(h, p) ==
    /\ LET r == login(users, refreshTokens, now, h, p) IN
       /\ users' = r.users
       /\ refreshTokens' = r.tokens
       /\ last' = Request("login", r.status, None, r.ret)
    /\ UNCHANGED now
    /\ AuthFrame

\* POST /auth/refresh.
Refresh(tok) ==
    /\ LET r == refresh_access_token(users, refreshTokens, now, tok) IN
       /\ users' = r.users
       /\ refreshTokens' = r.tokens
       /\ last' = Request("refresh", r.status, Some(tok), r.ret)
    /\ UNCHANGED now
    /\ AuthFrame

\* AuthService.logout.
Logout(tok) ==
    /\ LET r == logout(users, refreshTokens, now, tok) IN
       /\ refreshTokens' = r.tokens
       /\ last' = Request("logout", r.status, Some(tok), None)
    /\ UNCHANGED <<now, users>>
    /\ AuthFrame

\* DELETE /users/me (withdraw): guarded by get_current_active_user, then
\* UserService.deactivate_user.
Withdraw(tok) ==
    /\ LET g == get_current_active_user(users, now, tok) IN
       /\ users' = IF g.status = "ok"
                   THEN UserRepository_deactivate(users, Val(g.user)) ELSE users
       /\ last' = Request("withdraw", g.status, Some(tok), None)
    /\ UNCHANGED <<now, refreshTokens>>
    /\ AuthFrame

\* GET /users/me: a route guarded by get_current_active_user.
GetMe(tok) ==
    /\ LET g == get_current_active_user(users, now, tok) IN
       last' = Request("get_me", g.status, Some(tok), None)
    /\ UNCHANGED <<now, users, refreshTokens>>
    /\ AuthFrame

Next ==
    \/ Tick
    \/ \E h \in AliceHandles, p \in Passwords : Register(h, p)
    \/ \E h \in AliceHandles, p \in Passwords : Login(h, p)
    \/ \E tok \in Presentable : Refresh(tok)
    \/ \E tok \in Presentable : Logout(tok)
    \/ \E tok \in Presentable : Withdraw(tok)
    \/ \E tok \in Presentable : GetMe(tok)

Spec == Init /\ [][Next]_vars

(* ====================== claims C1 - C5 (Spec) ========================== *)
RecordsOf(rts, tok) == {r \in rts : r.token = sha256(tok)}

\* C1: refresh-token rotation is single-use.  A refresh that returns a new
\* pair leaves the presented token's record revoked (and returns a different
\* refresh token); a revoked record stays revoked; and a refresh that presents
\* a token whose record is revoked is rejected with Unauthorized and leaves
\* the refresh_tokens table as it was.
C1_RotationSingleUse == [][
    /\ (last'.op = "refresh" /\ last'.status = "ok") =>
          /\ RecordsOf(refreshTokens', Val(last'.token)) # {}
          /\ \A r \in RecordsOf(refreshTokens', Val(last'.token)) : r.isRevoked
          /\ Val(last'.ret).refreshToken # Val(last'.token)
    /\ \A r \in refreshTokens : r.isRevoked =>
          \E q \in refreshTokens' : q.token = r.token /\ q.isRevoked
    /\ \A tok \in Presentable :
          (Refresh(tok) /\ \E r \in RecordsOf(refreshTokens, tok) : r.isRevoked) =>
              /\ last'.status = "Unauthorized"
              /\ refreshTokens' = refreshTokens
    ]_vars

\* C1 witness: a refresh was just rejected with Unauthorized for a token whose
\* record had been revoked in the instant its successor was issued.
C1_Witness ==
    /\ last.op = "refresh" /\ last.status = "Unauthorized"
    /\ \E r \in RecordsOf(refreshTokens, Val(last.token)) :
          /\ r.isRevoked
          /\ \E q \in refreshTokens :
                /\ q.userId = r.userId /\ q.token # r.token
                /\ q.token.sha256.iat = Sec(Val(r.revokedAt))

\* C2 (as claimed): a successful login sets lastLoginAt to the time of the
\* call and stores a valid record under the digest of the returned refresh
\* token, and a refresh that presents that token as the very next request
\* succeeds while the user is active, in whatever second it is made.
C2_LoginThenRefreshSucceeds == [][
    /\ (last'.op = "login" /\ last'.status = "ok") =>
          LET tok == Val(last'.ret).refreshToken IN
          /\ users'[tok.sub].lastLoginAt = Some(now)
          /\ RecordsOf(refreshTokens', tok) # {}
          /\ \A r \in RecordsOf(refreshTokens', tok) : is_valid(r, now)
    /\ (/\ last.op = "login" /\ last.status = "ok"
        /\ Refresh(Val(last.ret).refreshToken)
        /\ users[Val(last.ret).refreshToken.sub].isActive) =>
          last'.status = "ok"
    ]_vars

\* The lookup AuthService.login makes, for stating C3.
LoginUser(h) == UserRepository_get_by_userId(users, h)
LoginCredentialOk(h, p) ==
    /\ LoginUser(h) # {}
    /\ \A i \in LoginUser(h) :
          IsSome(users[i].password) /\ verify_password(p, Val(users[i].password))

\* C3 (as claimed): login returns tokens only for an existing user with a
\* local password that verifies and an active account; it fails with
\* Unauthorized for an unknown handle, a social-only user or a wrong password,
\* with Forbidden for a deactivated account; and a login that fails creates
\* no refresh-token record and leaves lastLoginAt (the users table) unchanged.
C3_LoginOutcomes == [][
    \A h \in AliceHandles, p \in Passwords : Login(h, p) =>
        /\ last'.status = "ok" =>
              (LoginCredentialOk(h, p) /\ \A i \in LoginUser(h) : users[i].isActive)
        /\ ~LoginCredentialOk(h, p) => last'.status = "Unauthorized"
        /\ (LoginCredentialOk(h, p) /\ \E i \in LoginUser(h) : ~users[i].isActive) =>
              last'.status = "Forbidden"
        /\ last'.status # "ok" =>
              (refreshTokens' = refreshTokens /\ users' = users)
    ]_vars

\* C4: a deactivated account is locked out.  For every stored user whose
\* isActive is false: login with the password that verifies is Forbidden; a
\* refresh with any of the user's valid refresh tokens fails and leaves the
\* refresh_tokens table unchanged; get_current_active_user answers Forbidden
\* to every access token of the user that verifies.
C4_DeactivatedLockedOut ==
    \A id \in DOMAIN users : ~users[id].isActive =>
        /\ \A p \in Passwords :
              (IsSome(users[id].password) /\ verify_password(p, Val(users[id].password)))
              => login(users, refreshTokens, now, users[id].userId, p).status = "Forbidden"
        /\ \A r \in refreshTokens : (r.userId = id /\ is_valid(r, now)) =>
              LET o == refresh_access_token(users, refreshTokens, now, r.token.sha256) IN
              o.status # "ok" /\ o.tokens = refreshTokens
        /\ \A tok \in Presentable :
              (tok.sub = id /\ IsSome(verify_token(tok, "access", now)))
              => get_current_active_user(users, now, tok).status = "Forbidden"

\* C4 witness: a guarded route has just answered Forbidden to a verifying
\* access token of a deactivated user who still holds a valid refresh token.
C4_Witness ==
    /\ last.op = "get_me" /\ last.status = "Forbidden"
    /\ IsSome(verify_token(Val(last.token), "access", now))
    /\ ~users[Val(last.token).sub].isActive
    /\ \E r \in refreshTokens : r.userId = Val(last.token).sub /\ is_valid(r, now)

\* C5: access and refresh tokens are not interchangeable.  verify_token
\* returns a user id only for a token whose type claim is the expected type;
\* a refresh token as bearer credential is Unauthorized; an access token
\* presented to refresh_access_token is Unauthorized and the refresh_tokens
\* table is untouched.
C5_TokenTypesNotInterchangeable ==
    \A tok \in Presentable :
        /\ \A ty \in {"access", "refresh"} :
              IsSome(verify_token(tok, ty, now)) => tok.typ = ty
        /\ tok.typ = "refresh" =>
              /\ get_current_user(users, now, tok).status = "Unauthorized"
              /\ get_current_active_user(users, now, tok).status = "Unauthorized"
        /\ tok.typ = "access" =>
              LET o == refresh_access_token(users, refreshTokens, now, tok) IN
              o.status = "Unauthorized" /\ o.tokens = refreshTokens

\* C5 witness: an unexpired, correctly signed access token of a stored user
\* was presented to the refresh endpoint and rejected with Unauthorized.
C5_Witness ==
    /\ last.op = "refresh" /\ last.status = "Unauthorized"
    /\ Val(last.token).typ = "access" /\ Val(last.token).sig = "ok"
    /\ Val(last.token).exp >= Sec(now)
    /\ Val(last.token).sub \in DOMAIN users

(* ================== the user-service scenario (SpecUsers) ============== *)
UsersFrame ==
    UNCHANGED <<now, refreshTokens, cards, shares, activities, notifications, reqs>>

\* Keyword sets a caller of UserService.update_user may pass.
UpdateKwargs ==
    [password : {None, Some(hash_password("pw2"))},
     socialProvider : {None, Some("kakao")},
     socialId : {None} \cup {Some(x) : x \in SocialIds},
     isActive : {None, Some(FALSE)}]

CreateUser(h, p) ==
    /\ Cardinality(DOMAIN users) < MaxUsers
    /\ LET w == UserService_create_user(users, h, p) IN
       /\ users' = w.users
       /\ last' = Request("create_user", w.err, None, None)
    /\ UsersFrame

CreateSocialUser(h, sid) ==
    /\ Cardinality(DOMAIN users) < MaxUsers
    /\ LET w == UserService_create_social_user(users, h, "kakao", sid) IN
       /\ users' = w.users
       /\ last' = Request("create_social_user", w.err, None, None)
    /\ UsersFrame

\* UserService.update_user(user_id, **kwargs).
UpdateUser(id, kwargs) ==
    /\ LET w == UserRepository_update(users, id, kwargs, now) IN
       /\ users' = w.users
       /\ last' = Request("update_user", w.err, None, Some(id))
    /\ UsersFrame

UpdatePassword(id, p) ==
    /\ LET w == UserService_update_password(users, id, p) IN
       /\ users' = w.users
       /\ last' = Request("update_password", w.err, None, Some(id))
    /\ UsersFrame

ChangePasswordWithValidation(id, cur, new) ==
    /\ LET w == change_password_with_validation(users, id, cur, new) IN
       /\ users' = w.users
       /\ last' = Request("change_password_with_validation", w.err, None, None)
    /\ UsersFrame

NextUsers ==
    \/ \E h \in RawHandles, p \in Passwords : CreateUser(h, p)
    \/ \E h \in RawHandles, sid \in SocialIds : CreateSocialUser(h, sid)
    \/ \E id \in DOMAIN users, kw \in UpdateKwargs : UpdateUser(id, kw)
    \/ \E id \in DOMAIN users, p \in Passwords : UpdatePassword(id, p)
    \/ \E id \in DOMAIN users, cur \in Passwords, new \in Passwords :
          ChangePasswordWithValidation(id, cur, new)

SpecUsers == Init /\ [][NextUsers]_vars

\* C7: every stored user row is either local (password present, no social
\* provider, no social id) or social (no password, provider and social id both
\* present), never both and never neither.
C7_LocalXorSocial ==
    \A i \in DOMAIN users :
        LET local == users[i].password # << >>
                       /\ users[i].socialProvider = << >> /\ users[i].socialId = << >>
            social == users[i].password = << >>
                       /\ users[i].socialProvider # << >> /\ users[i].socialId # << >>
        IN (local \/ social) /\ ~(local /\ social)

\* C7 witness: update_password has just been refused by the storage layer for
\* a social user, and the table holds a local and a social row.
C7_Witness ==
    /\ last.op = "update_password" /\ last.status = "IntegrityError"
    /\ users[Val(last.ret)].password = << >>
    /\ \E i \in DOMAIN users : users[i].password # << >>

(* ============ concurrent registration (SpecRegister) =================== *)
(* AuthService.register awaits the database twice: the lookup of the       *)
(* handle, then the insert.  Requests of different clients run in their    *)
(* own sessions and interleave at these awaits.                            *)
ReqSlots == 1..MaxReqs
RegisterFrame ==
    UNCHANGED <<now, refreshTokens, cards, shares, activities, notifications>>

\* POST /auth/register arrives: the payload is validated (handle
\* lower-cased) and the handler is about to look the handle up.
RegisterStart(s, h, p) ==
    /\ s \notin DOMAIN reqs
    /\ reqs' = [x \in DOMAIN reqs \cup {s} |->
                   IF x = s THEN [op |-> "register", pc |-> "check",
                                  userId |-> validate_userId(h), password |-> p]
                   ELSE reqs[x]]
    /\ last' = Request("register_start", "ok", None, None)
    /\ UNCHANGED users
    /\ RegisterFrame

\* register, step 1: get_user_by_userId; an existing row ends the request
\* with HTTP 400.
RegisterCheck(s) ==
    /\ s \in DOMAIN reqs /\ reqs[s].op = "register" /\ reqs[s].pc = "check"
    /\ IF UserRepository_get_by_userId(users, reqs[s].userId) # {}
       THEN /\ reqs' = [x \in DOMAIN reqs \ {s} |-> reqs[x]]
            /\ last' = Request("register", "BadRequest", None, None)
       ELSE /\ reqs' = [reqs EXCEPT ![s].pc = "insert"]
            /\ last' = Request("register_check", "ok", None, None)
    /\ UNCHANGED users
    /\ RegisterFrame

\* register, step 2: user_service.create_user inserts and commits; a
\* constraint violation propagates as IntegrityError.
RegisterInsert(s) ==
    /\ s \in DOMAIN reqs /\ reqs[s].op = "register" /\ reqs[s].pc = "insert"
    /\ Cardinality(DOMAIN users) < MaxUsers
    /\ LET w == UserService_create_user(users, reqs[s].userId, reqs[s].password) IN
       /\ users' = w.users
       /\ last' = Request("register", w.err, None, None)
    /\ reqs' = [x \in DOMAIN reqs \ {s} |-> reqs[x]]
    /\ RegisterFrame

NextRegister ==
    \/ \E s \in ReqSlots, h \in RawHandles, p \in Passwords : RegisterStart(s, h, p)
    \/ \E s \in ReqSlots : RegisterCheck(s)
    \/ \E s \in ReqSlots : RegisterInsert(s)

SpecRegister == Init /\ [][NextRegister]_vars

\* The HTTP rejections of the handler itself: the claim's Conflict, which the
\* code sends as 400 Bad Request.
RegisterRejections == {"Conflict", "BadRequest"}

\* C6 (as claimed): a register call that ends while a stored user's handle
\* matches the requested one case-insensitively is rejected by the handler
\* and creates no user; any other call that ends has created exactly one
\* new local user with a hashed password; and no two stored users share a
\* login handle, under every interleaving of register calls.
C6_RegisterRejectsDuplicates == [][
    /\ \A s \in DOMAIN reqs :
          ((RegisterCheck(s) \/ RegisterInsert(s)) /\ s \notin DOMAIN reqs') =>
              IF \E i \in DOMAIN users : lower(users[i].userId) = lower(reqs[s].userId)
              THEN last'.status \in RegisterRejections /\ users' = users
              ELSE /\ last'.status = "ok"
                   /\ \E i \in DOMAIN users' \ DOMAIN users :
                         /\ DOMAIN users' = DOMAIN users \cup {i}
                         /\ users'[i].userId = reqs[s].userId
                         /\ users'[i].password = Some(hash_password(reqs[s].password))
                         /\ users'[i].socialProvider = None
                   /\ \A j \in DOMAIN users : users'[j] = users[j]
    /\ \A i, j \in DOMAIN users' : i # j => users'[i].userId # users'[j].userId
    ]_vars

(* ======================= share links (SpecShares) ====================== *)
(* A datetime is its instant and whether it carries a tzinfo.  Python      *)
(* refuses to order an aware and a naive datetime.                         *)
naive(t) == [t |-> t, aware |-> FALSE]
aware(t) == [t |-> t, aware |-> TRUE]
\* datetime.utcnow(): a naive datetime.
utcnow(t) == naive(t)
\* a < b on datetimes: "TypeError" when exactly one side is aware.
datetime_lt(a, b) ==
    IF a.aware # b.aware THEN "TypeError"
    ELSE IF a.t < b.t THEN "True" ELSE "False"

\* Share.expiryDate is DateTime(timezone=True) on PostgreSQL: whatever was
\* written, the value loaded from the column is an aware datetime.
Share_expiryDate(row) ==
    IF IsNone(row.expiryDate) THEN None ELSE Some(aware(Val(row.expiryDate)))

ShareIds == 1..MaxShares
CardIds == {1, 2}
ShareTokens == {"tA", "tB"}
SharePasswords == {None, Some("pw1")}
ShareExpiries == {None, Some(ShareExpiryAt)}

\* generate_share_token: secrets.choice draws any token of the alphabet.
generate_share_token == ShareTokens

\* unique=True on shareToken, Index("ix_shares_shareToken", unique=True).
ix_shares_shareToken(sh) ==
    \A i, j \in DOMAIN sh : i # j => sh[i].shareToken # sh[j].shareToken

NewShareId(sh) == CHOOSE i \in ShareIds \ DOMAIN sh :
                     \A j \in ShareIds \ DOMAIN sh : i <= j

ShareRepository_get_by_id(sh, share_id) == {i \in DOMAIN sh : i = share_id}
ShareRepository_get_by_token(sh, shareToken) ==
    {i \in DOMAIN sh : sh[i].shareToken = shareToken}

\* ShareRepository.create: add, commit; the unique index rejects a duplicate
\* token with IntegrityError.
ShareRepository_create(sh, row) ==
    LET id  == NewShareId(sh)
        new == [i \in DOMAIN sh \cup {id} |-> IF i = id THEN row ELSE sh[i]] IN
    IF ix_shares_shareToken(new) THEN [err |-> "ok", shares |-> new, id |-> Some(id)]
    ELSE [err |-> "IntegrityError", shares |-> sh, id |-> None]

\* ShareRepository.update at time t: keyword arguments that are None are
\* dropped; with none left nothing is written; otherwise the rest are written
\* to the row with that id (if any), and with them the row's updatedAt
\* (TimestampMixin: onupdate=func.now()) where the scenario keeps that column.
ShareColumns == {"password", "expiryDate", "isActive"}
ShareRepository_update(sh, share_id, kwargs, t) ==
    LET update_data == {k \in ShareColumns : IsSome(kwargs[k])} IN
    IF update_data = {} THEN sh
    ELSE
    [i \in DOMAIN sh |->
        IF i = share_id
        THEN [c \in DOMAIN sh[i] |->
                 IF c = "isActive" /\ c \in update_data THEN Val(kwargs[c])
                 ELSE IF c \in update_data THEN kwargs[c]
                 ELSE IF c = "updatedAt" THEN t
                 ELSE sh[i][c]]
        ELSE sh[i]]

\* ShareRepository.delete
ShareRepository_delete(sh, share_id) ==
    IF ShareRepository_get_by_id(sh, share_id) = {}
    THEN [success |-> FALSE, shares |-> sh]
    ELSE [success |-> TRUE, shares |-> [i \in DOMAIN sh \ {share_id} |-> sh[i]]]

(* ------------------------------- cards -------------------------------- *)
QrCodes == {"q1", "q2"}

\* raise HTTPException(status_code, detail).  The details stand for the
\* messages of the source: card_not_found, invalid_qr_code, card_inactive.
HTTPException(status, detail) == [status |-> status, detail |-> detail, ret |-> None]
Returned(ret) == [status |-> "ok", detail |-> "", ret |-> Some(ret)]

\* unique=True on qrCode, Index("ix_cards_qrCode", unique=True).
ix_cards_qrCode(cs) == \A i, j \in DOMAIN cs : i # j => cs[i].qrCode # cs[j].qrCode

NewCardId(cs) == CHOOSE i \in CardIds \ DOMAIN cs : \A j \in CardIds \ DOMAIN cs : i <= j

\* CardRepository.create / CardService.create_card
CardRepository_create(cs, row) ==
    LET id  == NewCardId(cs)
        new == [i \in DOMAIN cs \cup {id} |-> IF i = id THEN row ELSE cs[i]] IN
    IF ix_cards_qrCode(new) THEN [err |-> "ok", cards |-> new]
    ELSE [err |-> "IntegrityError", cards |-> cs]

CardRepository_get_by_id(cs, card_id) == {i \in DOMAIN cs : i = card_id}
CardRepository_get_by_qr_code(cs, qrCode) == {i \in DOMAIN cs : cs[i].qrCode = qrCode}

\* CardRepository.deactivate
CardRepository_deactivate(cs, card_id) ==
    [i \in DOMAIN cs |-> IF i = card_id THEN [cs[i] EXCEPT !.isActive = FALSE] ELSE cs[i]]

\* A card lookup that tells an inactive card apart from a missing one.
get_active_card_by_id_telling(cs, card_id) ==
    LET m == CardRepository_get_by_id(cs, card_id) IN
    IF m = {} THEN HTTPException("NotFound", "card_not_found")
    ELSE IF ~cs[card_id].isActive THEN HTTPException("BadRequest", "card_inactive")
    ELSE Returned(card_id)

\* CardService.get_active_card_by_id with the exception it raises.
CardService_get_active_card_by_id(cs, card_id) ==
    LET m == CardRepository_get_by_id(cs, card_id) IN
    IF m = {} THEN HTTPException("NotFound", "card_not_found")
    ELSE IF ~cs[card_id].isActive THEN HTTPException("NotFound", "card_not_found")
    ELSE Returned(card_id)

\* CardService.get_active_card_by_id: 404 for a missing and for an inactive card.
get_active_card_by_id(cs, card_id) == CardService_get_active_card_by_id(cs, card_id).status

\* CardService.get_active_card_by_qr_code
CardService_get_active_card_by_qr_code(cs, qrCode) ==
    LET m == CardRepository_get_by_qr_code(cs, qrCode) IN
    IF m = {} THEN HTTPException("NotFound", "invalid_qr_code")
    ELSE LET id == CHOOSE i \in m : TRUE IN
         IF ~cs[id].isActive THEN HTTPException("NotFound", "invalid_qr_code")
         ELSE Returned(id)

\* GET /cards/{card_id}: get_card_by_id, then the handler's own two checks.
get_card(cs, card_id) ==
    LET m == CardRepository_get_by_id(cs, card_id) IN
    IF m = {} THEN HTTPException("NotFound", "card_not_found")
    ELSE IF ~cs[card_id].isActive THEN HTTPException("NotFound", "card_not_found")
    ELSE Returned(card_id)

\* POST /cards/scan: get_card_by_qr_code, then the handler's own two checks.
scan_qr_code(cs, qrCode) ==
    LET m == CardRepository_get_by_qr_code(cs, qrCode) IN
    IF m = {} THEN HTTPException("NotFound", "invalid_qr_code")
    ELSE LET id == CHOOSE i \in m : TRUE IN
         IF ~cs[id].isActive THEN HTTPException("NotFound", "invalid_qr_code")
         ELSE Returned(id)

\* ShareService.is_share_valid: "True", "False", or the TypeError of the
\* datetime comparison.
is_share_valid(share, t) ==
    IF ~share.isActive THEN "False"
    ELSE IF IsNone(Share_expiryDate(share)) THEN "True"
    ELSE LET c == datetime_lt(Val(Share_expiryDate(share)), utcnow(t)) IN
         IF c = "TypeError" THEN "TypeError"
         ELSE IF c = "True" THEN "False" ELSE "True"

\* ShareService.get_share_by_token_with_validation
get_share_by_token_with_validation(sh, t, shareToken) ==
    LET m == ShareRepository_get_by_token(sh, shareToken) IN
    IF m = {} THEN [status |-> "NotFound", ret |-> None]
    ELSE LET id == CHOOSE i \in m : TRUE
             v  == is_share_valid(sh[id], t) IN
         IF v = "TypeError" THEN [status |-> "TypeError", ret |-> None]
         ELSE IF v = "False" THEN [status |-> "BadRequest", ret |-> None]
         ELSE [status |-> "ok", ret |-> Some(id)]

\* The permission check with the ownership test left out.
permission_check_any_user(sh, share_id, userId) ==
    IF ShareRepository_get_by_id(sh, share_id) = {} THEN "NotFound" ELSE "ok"

\* ShareService.get_share_with_permission_check
get_share_with_permission_check(sh, share_id, userId) ==
    IF ShareRepository_get_by_id(sh, share_id) = {} THEN "NotFound"
    ELSE IF sh[share_id].userId # userId THEN "Forbidden"
    ELSE "ok"

\* ShareService.update_share: a given password is hashed, then the
\* repository update.
ShareService_update_share(sh, share_id, kwargs, t) ==
    ShareRepository_update(sh, share_id,
        [kwargs EXCEPT !.password =
            IF IsSome(@) THEN Some(hash_password(Val(@))) ELSE None], t)

\* ShareService.update_share_with_validation
update_share_with_validation(sh, share_id, userId, kwargs, t) ==
    LET c == get_share_with_permission_check(sh, share_id, userId) IN
    IF c # "ok" THEN [status |-> c, shares |-> sh]
    ELSE [status |-> "ok", shares |-> ShareService_update_share(sh, share_id, kwargs, t)]

\* ShareService.delete_share_with_validation
delete_share_with_validation(sh, share_id, userId) ==
    LET c == get_share_with_permission_check(sh, share_id, userId) IN
    IF c # "ok" THEN [status |-> c, shares |-> sh]
    ELSE LET d == ShareRepository_delete(sh, share_id) IN
         [status |-> IF d.success THEN "ok" ELSE "NotFound", shares |-> d.shares]

\* ShareService.create_share after its token loop has settled on shareToken:
\* hash the password if one is given, build the row, repository create.
create_share(sh, userId, cardId, password, expiryDate, shareToken) ==
    ShareRepository_create(sh,
        [userId |-> userId, cardId |-> cardId, shareToken |-> shareToken,
         password |-> IF IsSome(password) THEN Some(hash_password(Val(password)))
                      ELSE None,
         expiryDate |-> expiryDate, viewCount |-> 0, isActive |-> TRUE])

\* ShareService.create_share_with_validation with the token its loop settled
\* on: the card must exist and be active, then create_share.
create_share_with_validation(sh, cs, userId, cardId, password, expiryDate, shareToken) ==
    LET c == CardService_get_active_card_by_id(cs, cardId) IN
    IF c.status # "ok"
    THEN [err |-> c.status, detail |-> c.detail, shares |-> sh, id |-> None]
    ELSE LET w == create_share(sh, userId, cardId, password, expiryDate, shareToken) IN
         [err |-> w.err, detail |-> "", shares |-> w.shares, id |-> w.id]

\* The share scenarios start from a database that already holds two
\* registered local users, one active card and one deactivated card.
InitShares ==
    /\ now = 0
    /\ users = UserService_create_user(
                   UserService_create_user(<< >>, "alice", "pw1").users,
                   "bob1", "pw1").users
    /\ refreshTokens = {}
    /\ cards = [c \in CardIds |->
                   [isActive |-> (c = 1), qrCode |-> IF c = 1 THEN "q1" ELSE "q2"]]
    /\ shares = << >>
    /\ activities = << >>
    /\ notifications = << >>
    /\ reqs = << >>
    /\ last = Request("init", "ok", None, None)

SharesFrame ==
    UNCHANGED <<now, users, refreshTokens, cards, activities, notifications>>

\* Keyword sets a caller of update_share_with_validation may pass.
ShareUpdateKwargs ==
    { [password |-> None, expiryDate |-> None, isActive |-> None],
      [password |-> None, expiryDate |-> None, isActive |-> Some(FALSE)],
      [password |-> None, expiryDate |-> None, isActive |-> Some(TRUE)],
      [password |-> None, expiryDate |-> Some(ShareExpiryAt), isActive |-> None],
      [password |-> Some("pw1"), expiryDate |-> None, isActive |-> None] }

\* create_share_with_validation run by one client with no other request in
\* between: card check, token loop until a free token is drawn, insert.
CreateShare(uid, cid, pw, exp) ==
    /\ Cardinality(DOMAIN shares) < MaxShares
    /\ \E tok \in generate_share_token :
          /\ get_active_card_by_id(cards, cid) = "ok" =>
                 ShareRepository_get_by_token(shares, tok) = {}
          /\ LET w == create_share_with_validation(shares, cards, uid, cid, pw, exp, tok) IN
             /\ shares' = w.shares
             /\ last' = Request("create_share", w.err,
                                IF IsNone(w.id) /\ w.err = "NotFound" THEN None
                                ELSE Some(tok), w.id)
    /\ UNCHANGED reqs
    /\ SharesFrame

\* Attribute access on a request model: a field the model does not declare
\* raises AttributeError.
getattr(obj, name) ==
    IF name \in DOMAIN obj THEN [err |-> "ok", value |-> obj[name]]
    ELSE [err |-> "AttributeError", value |-> None]

\* schemas.ShareCreate: cardId, password and expiryDays (1..365, 7 when the
\* client omits it); an out-of-range day count is a validation error.
ExpiryDaysInputs == {None} \cup {Some(d) : d \in 0..MaxExpiryDays}
ShareCreate(cardId, password, expiryDays) ==
    LET d == IF IsNone(expiryDays) THEN ShareCreate_expiryDays_default
             ELSE Val(expiryDays) IN
    IF d < ShareCreate_expiryDays_ge \/ d > ShareCreate_expiryDays_le
    THEN [err |-> "ValidationError", value |-> None]
    ELSE [err |-> "ok",
          value |-> Some([cardId |-> cardId, password |-> password, expiryDays |-> d])]

\* POST /shares for an authenticated active user: the body is validated into
\* a ShareCreate, then the handler reads share_data.cardId, .password and
\* .expiryDate and passes them to create_share_with_validation.
CreateShareRoute(uid, cid, pw, days) ==
    /\ Cardinality(DOMAIN shares) < MaxShares
    /\ LET body == ShareCreate(cid, pw, days) IN
       IF body.err # "ok"
       THEN /\ shares' = shares
            /\ last' = Request("post_shares", body.err, None, None)
       ELSE LET share_data == Val(body.value)
                expiryDate == getattr(share_data, "expiryDate") IN
            IF expiryDate.err # "ok"
            THEN /\ shares' = shares
                 /\ last' = Request("post_shares", expiryDate.err, None, None)
            ELSE IF get_active_card_by_id(cards, cid) # "ok"
            THEN /\ shares' = shares
                 /\ last' = Request("post_shares", "NotFound", None, None)
            ELSE \E tok \in generate_share_token :
                    /\ ShareRepository_get_by_token(shares, tok) = {}
                    /\ LET w == create_share(shares, uid, cid, pw,
                                             expiryDate.value, tok) IN
                       /\ shares' = w.shares
                       /\ last' = Request("post_shares", w.err, Some(tok), w.id)
    /\ UNCHANGED reqs
    /\ SharesFrame

\* GET /shares/token/{share_token}
GetShareByToken(tok) ==
    /\ LET r == get_share_by_token_with_validation(shares, now, tok) IN
       last' = Request("get_share_by_token", r.status, Some(tok), r.ret)
    /\ UNCHANGED <<shares, reqs>>
    /\ SharesFrame

\* GET /shares/{share_id}
GetShare(id, uid) ==
    /\ LET c == get_share_with_permission_check(shares, id, uid) IN
       last' = Request("get_share", c, None, IF c = "ok" THEN Some(id) ELSE None)
    /\ UNCHANGED <<shares, reqs>>
    /\ SharesFrame

\* ShareService.update_share_with_validation called with keyword arguments.
UpdateShare(id, uid, kwargs) ==
    /\ LET r == update_share_with_validation(shares, id, uid, kwargs, now) IN
       /\ shares' = r.shares
       /\ last' = Request("update_share", r.status, None,
                          IF r.status = "ok" THEN Some(id) ELSE None)
    /\ UNCHANGED reqs
    /\ SharesFrame

\* DELETE /shares/{share_id}
DeleteShare(id, uid) ==
    /\ LET r == delete_share_with_validation(shares, id, uid) IN
       /\ shares' = r.shares
       /\ last' = Request("delete_share", r.status, None, None)
    /\ UNCHANGED reqs
    /\ SharesFrame

NextShares ==
    \/ Tick
    \/ \E uid \in DOMAIN users, cid \in CardIds,
          pw \in SharePasswords, exp \in ShareExpiries : CreateShare(uid, cid, pw, exp)
    \/ \E uid \in DOMAIN users, cid \in CardIds,
          pw \in SharePasswords, days \in ExpiryDaysInputs :
          CreateShareRoute(uid, cid, pw, days)
    \/ \E tok \in ShareTokens : GetShareByToken(tok)
    \/ \E id \in ShareIds, uid \in DOMAIN users : GetShare(id, uid)
    \/ \E id \in ShareIds, uid \in DOMAIN users, kw \in ShareUpdateKwargs :
          UpdateShare(id, uid, kw)
    \/ \E id \in ShareIds, uid \in DOMAIN users : DeleteShare(id, uid)

SpecShares == InitShares /\ [][NextShares]_vars

\* C8 (as claimed): looking a share up by token returns it exactly when a
\* share with that token exists, is active, and has no expiryDate or one
\* strictly after the current instant; it fails with NotFound when no share
\* has the token and with BadRequest when the share is inactive or its
\* expiryDate is not in the future.
C8_TokenLookupValidity == [][
    \A tok \in ShareTokens : GetShareByToken(tok) =>
        LET m == {i \in DOMAIN shares : shares[i].shareToken = tok} IN
        IF m = {} THEN last'.status = "NotFound"
        ELSE \A i \in m :
                IF shares[i].isActive
                   /\ (shares[i].expiryDate = << >> \/ shares[i].expiryDate[1] > now)
                THEN last'.status = "ok" /\ last'.ret = <<i>>
                ELSE last'.status = "BadRequest"
    ]_vars

\* C9: reading a share by id, updating it and deleting it fail with NotFound
\* when the id does not exist and with Forbidden when the requester is not
\* the creator, leaving the share store unchanged in both cases; they succeed
\* only for the creator.
C9_OnlyCreatorManagesShare == [][
    last'.op \in {"get_share", "update_share", "delete_share"} =>
    \A id \in ShareIds, uid \in DOMAIN users :
        (GetShare(id, uid) \/ DeleteShare(id, uid)
           \/ \E kw \in ShareUpdateKwargs : UpdateShare(id, uid, kw)) =>
            IF id \notin DOMAIN shares
            THEN last'.status = "NotFound" /\ shares' = shares
            ELSE IF shares[id].userId # uid
            THEN last'.status = "Forbidden" /\ shares' = shares
            ELSE last'.status = "ok"
    ]_vars

\* C9 witness: an update or delete by a user who is not the creator has just
\* been refused while a share is stored.
C9_Witness ==
    /\ last.op \in {"delete_share", "update_share"}
    /\ last.status = "Forbidden"
    /\ shares # << >>

\* C12 (as claimed): a create-share request on an active card with a valid
\* expiryDays d (7 when omitted) persists a share whose expiryDate is the
\* creation instant plus d days.
C12_ExpiryDaysConverted == [][
    \A uid \in DOMAIN users, cid \in CardIds, pw \in SharePasswords,
       days \in ExpiryDaysInputs :
        (/\ CreateShareRoute(uid, cid, pw, days)
         /\ ShareCreate(cid, pw, days).err = "ok"
         /\ get_active_card_by_id(cards, cid) = "ok") =>
            /\ last'.status = "ok"
            /\ \E i \in DOMAIN shares' \ DOMAIN shares :
                  shares'[i].expiryDate =
                      <<now + Val(ShareCreate(cid, pw, days).value).expiryDays * DayTicks>>
    ]_vars

(* ============ concurrent share creation (SpecShareCreate) ============== *)
(* create_share_with_validation awaits the database at the card lookup, at *)
(* each get_by_token of the token loop and at the insert; requests of      *)
(* different clients interleave at these awaits.                           *)

\* The call arrives and looks the card up; a missing or inactive card ends
\* it with 404, otherwise it enters the token loop.
CreateShareStart(s, uid, cid, pw, exp) ==
    /\ s \notin DOMAIN reqs
    /\ IF get_active_card_by_id(cards, cid) # "ok"
       THEN /\ reqs' = reqs
            /\ last' = Request("create_share", "NotFound", None, None)
       ELSE /\ reqs' = [x \in DOMAIN reqs \cup {s} |->
                           IF x = s THEN [op |-> "create_share", pc |-> "generate",
                                          userId |-> uid, cardId |-> cid,
                                          password |-> pw, expiryDate |-> exp,
                                          shareToken |-> None]
                           ELSE reqs[x]]
            /\ last' = Request("create_share_start", "ok", None, None)
    /\ UNCHANGED shares
    /\ SharesFrame

\* One round of the token loop: draw a token and look it up; leave the loop
\* if no share has it, draw again otherwise.
CreateShareGenerate(s) ==
    /\ s \in DOMAIN reqs /\ reqs[s].op = "create_share" /\ reqs[s].pc = "generate"
    /\ \E tok \in generate_share_token :
          IF ShareRepository_get_by_token(shares, tok) = {}
          THEN /\ reqs' = [reqs EXCEPT ![s].pc = "insert", ![s].shareToken = Some(tok)]
               /\ last' = Request("create_share_generate", "ok", Some(tok), None)
          ELSE /\ reqs' = reqs
               /\ last' = Request("create_share_generate", "retry", Some(tok), None)
    /\ UNCHANGED shares
    /\ SharesFrame

\* The insert with the token the loop settled on; a unique-index violation
\* propagates as IntegrityError.
CreateShareInsert(s) ==
    /\ s \in DOMAIN reqs /\ reqs[s].op = "create_share" /\ reqs[s].pc = "insert"
    /\ Cardinality(DOMAIN shares) < MaxShares
    /\ LET w == create_share(shares, reqs[s].userId, reqs[s].cardId, reqs[s].password,
                             reqs[s].expiryDate, Val(reqs[s].shareToken)) IN
       /\ shares' = w.shares
       /\ last' = Request("create_share", w.err, reqs[s].shareToken, w.id)
    /\ reqs' = [x \in DOMAIN reqs \ {s} |-> reqs[x]]
    /\ SharesFrame

NextShareCreate ==
    \/ \E s \in ReqSlots, uid \in DOMAIN users, cid \in CardIds,
          pw \in SharePasswords, exp \in ShareExpiries :
          CreateShareStart(s, uid, cid, pw, exp)
    \/ \E s \in ReqSlots : CreateShareGenerate(s)
    \/ \E s \in ReqSlots : CreateShareInsert(s)
    \/ \E id \in ShareIds, uid \in DOMAIN users : DeleteShare(id, uid)

SpecShareCreate == InitShares /\ [][NextShareCreate]_vars

\* C10 (as claimed): under every interleaving of create_share calls on
\* active cards, a call that reaches its insert persists a share with
\* viewCount 0 and isActive true whose shareToken differs from that of every
\* other stored share; a token taken by a concurrent insert after the
\* pre-check does not make the call fail.
C10_TokenCollisionFree == [][
    \A s \in DOMAIN reqs : CreateShareInsert(s) =>
        /\ last'.status = "ok"
        /\ \E i \in DOMAIN shares' \ DOMAIN shares :
              /\ last'.ret = <<i>>
              /\ shares'[i].viewCount = 0
              /\ shares'[i].isActive
              /\ shares'[i].userId = reqs[s].userId
              /\ \A j \in DOMAIN shares' \ {i} :
                    shares'[j].shareToken # shares'[i].shareToken
    ]_vars

(* ================== view counting (SpecViews) ========================== *)
(* increment_view_count awaits the database at the UPDATE (committed at     *)
(* once) and at the get_by_id that follows; calls of different clients      *)
(* interleave between the two.                                              *)

\* The view-count update with its effect lost.
increment_view_count_lost(sh, share_id) == sh

\* ShareRepository.increment_view_count, the statement
\* UPDATE shares SET viewCount = viewCount + 1 WHERE id = share_id:
\* evaluated by the database against the row's current value.
ShareRepository_increment_view_count(sh, share_id) ==
    [i \in DOMAIN sh |->
        IF i = share_id THEN [sh[i] EXCEPT !.viewCount = @ + 1] ELSE sh[i]]

\* increment_view_count, step 1: the relative UPDATE and its commit.
IncrementUpdate(s, id) ==
    /\ s \notin DOMAIN reqs
    /\ id \in DOMAIN shares => shares[id].viewCount < MaxViews
    /\ shares' = ShareRepository_increment_view_count(shares, id)
    /\ reqs' = [x \in DOMAIN reqs \cup {s} |->
                   IF x = s THEN [op |-> "increment_view_count", pc |-> "read",
                                  share_id |-> id]
                   ELSE reqs[x]]
    /\ last' = Request("increment_update", "ok", None, Some(id))
    /\ SharesFrame

\* increment_view_count, step 2: get_by_id returns the row as it is now, or
\* None if it is gone.
IncrementReturn(s) ==
    /\ s \in DOMAIN reqs /\ reqs[s].op = "increment_view_count"
    /\ LET m == ShareRepository_get_by_id(shares, reqs[s].share_id) IN
       last' = Request("increment_view_count", "ok", None,
                       IF m = {} THEN None ELSE Some(shares[reqs[s].share_id].viewCount))
    /\ reqs' = [x \in DOMAIN reqs \ {s} |-> reqs[x]]
    /\ UNCHANGED shares
    /\ SharesFrame

NextViews ==
    \/ \E uid \in DOMAIN users, cid \in CardIds,
          pw \in SharePasswords, exp \in ShareExpiries : CreateShare(uid, cid, pw, exp)
    \/ \E s \in ReqSlots, id \in ShareIds : IncrementUpdate(s, id)
    \/ \E s \in ReqSlots : IncrementReturn(s)
    \/ \E id \in ShareIds, uid \in DOMAIN users : DeleteShare(id, uid)

SpecViews == InitShares /\ [][NextViews]_vars

\* C11: under every interleaving of increment_view_count calls, each call
\* adds exactly one to the viewCount of its share, whatever other calls are
\* in flight, so N calls add N; and no step makes a stored share's viewCount
\* smaller.
C11_ViewCountNoLostUpdate == [][
    /\ \A s \in ReqSlots, id \in DOMAIN shares :
          IncrementUpdate(s, id) =>
              /\ id \in DOMAIN shares'
              /\ shares'[id].viewCount = shares[id].viewCount + 1
              /\ \A j \in DOMAIN shares \ {id} : shares'[j] = shares[j]
    /\ \A i \in DOMAIN shares \cap DOMAIN shares' :
          shares'[i].viewCount >= shares[i].viewCount
    ]_vars

\* C11 witness: two calls on the same share have both run their UPDATE
\* before either has returned, and the share counts both.
C11_Witness ==
    /\ \E s1, s2 \in DOMAIN reqs :
          /\ s1 # s2
          /\ reqs[s1].op = "increment_view_count" /\ reqs[s2].op = "increment_view_count"
          /\ reqs[s1].share_id = reqs[s2].share_id
          /\ reqs[s1].share_id \in DOMAIN shares
          /\ shares[reqs[s1].share_id].viewCount = 2
    /\ last.op = "increment_update"

(* ========================= cards (SpecCards) =========================== *)
CardsFrame == UNCHANGED <<now, users, refreshTokens, notifications, reqs>>

\* The outcome of a card request, with the status and detail the caller sees
\* and the id or QR code that was asked for.
CardResult(op, arg, o) ==
    [op |-> op, status |-> o.status, token |-> None, ret |-> o.ret,
     detail |-> o.detail, arg |-> arg]

\* CardRepository.delete: the card and, through the relationships'
\* cascade="all, delete-orphan", its activity records and shares.
CardRepository_delete(cs, sh, acts, card_id) ==
    IF CardRepository_get_by_id(cs, card_id) = {}
    THEN [success |-> FALSE, cards |-> cs, shares |-> sh, activities |-> acts]
    ELSE [success |-> TRUE,
          cards |-> [i \in DOMAIN cs \ {card_id} |-> cs[i]],
          shares |-> [i \in {k \in DOMAIN sh : sh[k].cardId # card_id} |-> sh[i]],
          activities |-> [i \in {k \in DOMAIN acts : acts[k].cardId # card_id} |-> acts[i]]]

\* CardService.create_card
CreateCard(qr, active) ==
    /\ DOMAIN cards # CardIds
    /\ LET w == CardRepository_create(cards, [isActive |-> active, qrCode |-> qr]) IN
       /\ cards' = w.cards
       /\ last' = Request("create_card", w.err, None, None)
    /\ UNCHANGED <<shares, activities>>
    /\ CardsFrame

\* CardService.deactivate_card
DeactivateCard(id) ==
    /\ cards' = CardRepository_deactivate(cards, id)
    /\ last' = Request("deactivate_card", "ok", None, None)
    /\ UNCHANGED <<shares, activities>>
    /\ CardsFrame

\* CardService.delete_card
DeleteCard(id) ==
    /\ LET d == CardRepository_delete(cards, shares, activities, id) IN
       /\ cards' = d.cards
       /\ shares' = d.shares
       /\ activities' = d.activities
       /\ last' = Request("delete_card", IF d.success THEN "ok" ELSE "False", None, None)
    /\ CardsFrame

\* CardService.get_active_card_by_id
GetActiveCardById(id) ==
    /\ last' = CardResult("get_active_card_by_id", id,
                          CardService_get_active_card_by_id(cards, id))
    /\ UNCHANGED <<cards, shares, activities>>
    /\ CardsFrame

\* CardService.get_active_card_by_qr_code
GetActiveCardByQrCode(qr) ==
    /\ last' = CardResult("get_active_card_by_qr_code", qr,
                          CardService_get_active_card_by_qr_code(cards, qr))
    /\ UNCHANGED <<cards, shares, activities>>
    /\ CardsFrame

\* GET /cards/{card_id}
GetCard(id) ==
    /\ last' = CardResult("get_card", id, get_card(cards, id))
    /\ UNCHANGED <<cards, shares, activities>>
    /\ CardsFrame

\* POST /cards/scan
ScanQrCode(qr) ==
    /\ last' = CardResult("scan_qr_code", qr, scan_qr_code(cards, qr))
    /\ UNCHANGED <<cards, shares, activities>>
    /\ CardsFrame

NextCards ==
    \/ \E qr \in QrCodes, active \in BOOLEAN : CreateCard(qr, active)
    \/ \E id \in CardIds : DeactivateCard(id)
    \/ \E id \in CardIds : DeleteCard(id)
    \/ \E id \in CardIds : GetActiveCardById(id)
    \/ \E qr \in QrCodes : GetActiveCardByQrCode(qr)
    \/ \E id \in CardIds : GetCard(id)
    \/ \E qr \in QrCodes : ScanQrCode(qr)
    \/ \E uid \in DOMAIN users, cid \in CardIds,
          pw \in SharePasswords, exp \in ShareExpiries : CreateShare(uid, cid, pw, exp)

SpecCards == InitShares /\ [][NextCards]_vars

\* What a caller sees of an outcome: the status and the detail.
Seen(o) == <<o.status, o.detail>>

\* The card table with one card hard-removed: the world in which that card
\* does not exist.
WithoutCard(cs, c) == [i \in DOMAIN cs \ {c} |-> cs[i]]

\* C13: for every stored inactive card, each read path answers a request for
\* it (by id or by its QR code) with the same status and detail as it would
\* if the card did not exist: get_active_card_by_id,
\* get_active_card_by_qr_code, the card-detail route, the QR-scan route, and
\* share creation (which also stores nothing in either case).
C13_InactiveCardIndistinguishable ==
    \A c \in DOMAIN cards : ~cards[c].isActive =>
        LET gone == WithoutCard(cards, c)
            qr   == cards[c].qrCode IN
        /\ Seen(CardService_get_active_card_by_id(cards, c))
             = Seen(CardService_get_active_card_by_id(gone, c))
        /\ Seen(CardService_get_active_card_by_qr_code(cards, qr))
             = Seen(CardService_get_active_card_by_qr_code(gone, qr))
        /\ Seen(get_card(cards, c)) = Seen(get_card(gone, c))
        /\ Seen(scan_qr_code(cards, qr)) = Seen(scan_qr_code(gone, qr))
        /\ \A uid \in DOMAIN users, pw \in SharePasswords, exp \in ShareExpiries,
              tok \in ShareTokens :
              LET a == create_share_with_validation(shares, cards, uid, c, pw, exp, tok)
                  b == create_share_with_validation(shares, gone, uid, c, pw, exp, tok) IN
              <<a.err, a.detail, a.shares>> = <<b.err, b.detail, b.shares>>

\* C13 witness: a card that exists but is inactive has just been asked for
\* by id and the caller was told it was not found.
C13_Witness ==
    /\ last.op \in {"get_active_card_by_id", "get_card"}
    /\ last.arg \in DOMAIN cards
    /\ ~cards[last.arg].isActive
    /\ last.status = "NotFound"

(* ============== activity records and deletes (SpecRecords) ============= *)
ActivityIds == 1..MaxActivities
ActivityResults == {"r1", "r2"}

NewActivityId(acts) == CHOOSE i \in ActivityIds \ DOMAIN acts :
                          \A j \in ActivityIds \ DOMAIN acts : i <= j

\* An insert that overwrites the stored record of the same user and card.
activity_upsert(acts, us, cs, row) ==
    LET same == {i \in DOMAIN acts : acts[i].userId = row.userId
                                      /\ acts[i].cardId = row.cardId} IN
    IF same # {}
    THEN [err |-> "ok", id |-> Some(CHOOSE i \in same : TRUE),
          activities |-> [i \in DOMAIN acts |-> IF i \in same THEN row ELSE acts[i]]]
    ELSE LET id == NewActivityId(acts) IN
         [err |-> "ok", id |-> Some(id),
          activities |-> [i \in DOMAIN acts \cup {id} |-> IF i = id THEN row ELSE acts[i]]]

\* UserCardActivityRepository.create: add, commit; the foreign keys to
\* users.id and cards.id reject a row whose user or card is not stored.
UserCardActivityRepository_create(acts, us, cs, row) ==
    IF row.userId \notin DOMAIN us \/ row.cardId \notin DOMAIN cs
    THEN [err |-> "IntegrityError", activities |-> acts, id |-> None]
    ELSE LET id == NewActivityId(acts) IN
         [err |-> "ok", id |-> Some(id),
          activities |-> [i \in DOMAIN acts \cup {id} |-> IF i = id THEN row ELSE acts[i]]]

UserCardActivityRepository_get_by_id(acts, activity_id) ==
    {i \in DOMAIN acts : i = activity_id}

\* UserCardActivityService.create_activity: completedAt is set to utcnow().
create_activity(acts, us, cs, t, userId, cardId, activityResult) ==
    UserCardActivityRepository_create(acts, us, cs,
        [userId |-> userId, cardId |-> cardId, activityResult |-> activityResult,
         completedAt |-> t])

\* Activity creation that does not look at the card's isActive.
create_activity_unvalidated(acts, us, cs, t, userId, cardId, activityResult) ==
    IF CardRepository_get_by_id(cs, cardId) = {}
    THEN [err |-> "NotFound", detail |-> "card_not_found", activities |-> acts, id |-> None]
    ELSE LET w == create_activity(acts, us, cs, t, userId, cardId, activityResult) IN
         [err |-> w.err, detail |-> "", activities |-> w.activities, id |-> w.id]

\* UserCardActivityService.create_activity_with_validation
create_activity_with_validation(acts, us, cs, t, userId, cardId, activityResult) ==
    IF CardRepository_get_by_id(cs, cardId) = {}
    THEN [err |-> "NotFound", detail |-> "card_not_found", activities |-> acts, id |-> None]
    ELSE IF ~cs[cardId].isActive
    THEN [err |-> "BadRequest", detail |-> "card_inactive", activities |-> acts, id |-> None]
    ELSE LET w == create_activity(acts, us, cs, t, userId, cardId, activityResult) IN
         [err |-> w.err, detail |-> "", activities |-> w.activities, id |-> w.id]

\* UserCardActivityService.get_activity_with_permission_check
get_activity_with_permission_check(acts, activity_id, userId) ==
    IF UserCardActivityRepository_get_by_id(acts, activity_id) = {} THEN "NotFound"
    ELSE IF acts[activity_id].userId # userId THEN "Forbidden"
    ELSE "ok"

\* UserRepository.delete: session.delete(user) and commit.  The relationships
\* declared with cascade="all, delete-orphan" (activity records, shares,
\* notifications) delete their rows with the user.  The refresh_tokens
\* backref declares no delete cascade, so the flush first sets userId of the
\* user's refresh-token rows to NULL, which the column's nullable=False
\* rejects: the commit raises IntegrityError and nothing is deleted.
UserRepository_delete(us, rts, sh, acts, notes, user_id) ==
    IF UserRepository_get_by_id(us, user_id) = {}
    THEN [status |-> "False", users |-> us, shares |-> sh, activities |-> acts,
          notifications |-> notes]
    ELSE IF \E r \in rts : r.userId = user_id
    THEN [status |-> "IntegrityError", users |-> us, shares |-> sh,
          activities |-> acts, notifications |-> notes]
    ELSE [status |-> "ok",
          users |-> [i \in DOMAIN us \ {user_id} |-> us[i]],
          shares |-> [i \in {k \in DOMAIN sh : sh[k].userId # user_id} |-> sh[i]],
          activities |-> [i \in {k \in DOMAIN acts : acts[k].userId # user_id} |-> acts[i]],
          notifications |->
              [i \in {k \in DOMAIN notes : notes[k].userId # user_id} |-> notes[i]]]

\* UserCardActivityService.create_activity_with_validation called for a
\* user id (the authenticated user of POST /activities).
CreateActivity(uid, cid, result) ==
    /\ Cardinality(DOMAIN activities) < MaxActivities
    /\ LET w == create_activity_with_validation(activities, users, cards, now,
                                                uid, cid, result) IN
       /\ activities' = w.activities
       /\ last' = Request("create_activity", w.err, None, w.id)
    /\ UNCHANGED <<now, users, refreshTokens, cards, shares, notifications, reqs>>

\* GET /activities/{activity_id}
GetActivity(id, uid) ==
    /\ LET c == get_activity_with_permission_check(activities, id, uid) IN
       last' = Request("get_activity", c, None, IF c = "ok" THEN Some(id) ELSE None)
    /\ UNCHANGED <<now, users, refreshTokens, cards, shares, activities,
                   notifications, reqs>>

\* UserService.delete_user (hard delete)
DeleteUser(id) ==
    /\ LET d == UserRepository_delete(users, refreshTokens, shares, activities,
                                      notifications, id) IN
       /\ users' = d.users
       /\ shares' = d.shares
       /\ activities' = d.activities
       /\ notifications' = d.notifications
       /\ last' = Request("delete_user", d.status, None, None)
    /\ UNCHANGED <<now, refreshTokens, cards, reqs>>

RecordHandles == {"alice", "bob1"}

NextRecords ==
    \/ \E h \in RecordHandles : Login(h, "pw1")
    \/ \E uid \in UserIds, cid \in CardIds, r \in ActivityResults : CreateActivity(uid, cid, r)
    \/ \E id \in ActivityIds, uid \in UserIds : GetActivity(id, uid)
    \/ \E uid \in DOMAIN users, cid \in CardIds : CreateShare(uid, cid, None, None)
    \/ \E id \in CardIds : DeactivateCard(id)
    \/ \E id \in CardIds : DeleteCard(id)
    \/ \E id \in UserIds : DeleteUser(id)

SpecRecords == InitShares /\ [][NextRecords]_vars

\* C14: create_activity_with_validation called by a stored user fails with
\* NotFound if the card does not exist and with BadRequest if the card is
\* inactive, creating no record in either case; otherwise it creates exactly
\* one record, owned by the calling user, for that card.
C14_ActivityOnlyForActiveCard == [][
    \A uid \in DOMAIN users, cid \in CardIds, r \in ActivityResults :
        CreateActivity(uid, cid, r) =>
            IF cid \notin DOMAIN cards
            THEN last'.status = "NotFound" /\ activities' = activities
            ELSE IF ~cards[cid].isActive
            THEN last'.status = "BadRequest" /\ activities' = activities
            ELSE /\ last'.status = "ok"
                 /\ \E i \in DOMAIN activities' \ DOMAIN activities :
                       /\ DOMAIN activities' = DOMAIN activities \cup {i}
                       /\ activities'[i].userId = uid
                       /\ activities'[i].cardId = cid
                       /\ activities'[i].activityResult = r
                 /\ \A j \in DOMAIN activities : activities'[j] = activities[j]
    ]_vars

\* C14 witness: an activity on an inactive card has just been refused with
\* BadRequest while a record created earlier is stored.
C14_Witness ==
    /\ last.op = "create_activity"
    /\ last.status = "BadRequest"
    /\ activities # << >>

\* C15: a stored activity record is never changed (userId, cardId,
\* activityResult, completedAt), and it leaves the store only in a step that
\* hard-deletes its user or its card.
C15_ActivitiesAppendOnly == [][
    \A i \in DOMAIN activities :
        IF i \in DOMAIN activities'
        THEN activities'[i] = activities[i]
        ELSE \/ activities[i].userId \in DOMAIN users \ DOMAIN users'
             \/ activities[i].cardId \in DOMAIN cards \ DOMAIN cards'
    ]_vars

\* C15 witness: a user has just been hard-deleted together with the second
\* activity record, and the first record, of the other user, is still stored.
C15_Witness ==
    /\ last.op = "delete_user"
    /\ last.status = "ok"
    /\ DOMAIN activities = {1}
    /\ DOMAIN users = {activities[1].userId}

C16_ValidIffStrictlyFuture ==
    [][\A tok \in Presentable :
         Refresh(tok) =>
           \A r \in RecordsOf(refreshTokens, tok) :
             /\ is_valid(r, now) <=> (~r.isRevoked /\ r.expiresAt > now)
             /\ last'.status = "ok" => (~r.isRevoked /\ r.expiresAt > now)
             /\ r.expiresAt = now => last'.status = "Unauthorized"]_vars

\* C17: logout never raises; it reports false when no record matches the
\* digest of the presented token and when the matching record is already
\* revoked, and reports true only when it turns a non-revoked record into a
\* revoked one.
C17_LogoutReportsNotFound ==
    [][\A tok \in Presentable :
         Logout(tok) =>
           /\ last'.status \in {"true", "false"}
           /\ last'.status = "true" <=>
                \E r \in RecordsOf(refreshTokens, tok) :
                    /\ ~r.isRevoked
                    /\ \E q \in RecordsOf(refreshTokens', tok) : q.isRevoked]_vars

(* ============ changing a password and logging in again (C20) =========== *)
\* The accounts of the scenario: a local account registered through
\* POST /auth/register and a social-only account; clients log in and change
\* passwords while the clock advances.
NextPassword ==
    \/ Tick
    \/ \E p \in Passwords : Register("alice", p)
    \/ \E sid \in SocialIds : CreateSocialUser("bob1", sid)
    \/ \E h \in RecordHandles, p \in Passwords : Login(h, p)
    \/ \E id \in DOMAIN users, cur \in Passwords, new \in Passwords :
          ChangePasswordWithValidation(id, cur, new)

SpecPassword == Init /\ [][NextPassword]_vars

\* C20: change_password_with_validation on an active account rejects with
\* BadRequest, leaving the users table unchanged, if the account is social-only
\* or the supplied current password does not verify; otherwise it replaces the
\* stored hash, so that a login with the new password then succeeds and a
\* login with the old (different) password fails with Unauthorized.
C20_ChangePasswordThenLogin ==
    [][\A id \in DOMAIN users, cur \in Passwords, new \in Passwords :
         (/\ last'.op = "change_password_with_validation"
          /\ ChangePasswordWithValidation(id, cur, new)
          /\ users[id].isActive) =>
           LET user == users[id]
               social_only == IsNone(user.password) /\ IsSome(user.socialProvider)
               verifies == IsSome(user.password)
                           /\ verify_password(cur, Val(user.password))
           IN
           IF social_only \/ ~verifies
           THEN last'.status = "BadRequest" /\ users' = users
           ELSE /\ last'.status = "ok"
                /\ users'[id].password = Some(hash_password(new))
                /\ login(users', refreshTokens', now', user.userId, new).status = "ok"
                /\ new # cur =>
                     login(users', refreshTokens', now', user.userId, cur).status
                       = "Unauthorized"]_vars

(* ================= the request session: get_db (C18) =================== *)
(* get_db is the dependency that hands a route its AsyncSession:           *)
(*     async with AsyncSessionLocal() as session:                          *)
(*         try:     yield session; await session.commit()                  *)
(*         except Exception: await session.rollback(); raise               *)
(*         finally: await session.close()                                  *)
(* The caller's work runs at the yield, on that session; the repositories  *)
(* it calls commit on the session themselves after each write.             *)

\* Number of repository writes one request performs at most.
MaxWork == 2

\* What the caller's work may raise: subclasses of Exception, and
\* asyncio.CancelledError, which derives from BaseException only.
Exceptions == {"HTTPException", "IntegrityError"}
BaseExceptions == Exceptions \cup {"CancelledError"}

SessionFrame ==
    UNCHANGED <<now, users, refreshTokens, cards, shares, activities, notifications>>

\* The session of request s moves to position pc with the fields changed.
SessionAt(s, pc) == s \in DOMAIN reqs /\ reqs[s].op = "get_db" /\ reqs[s].pc = pc
SessionStepTo(s, r) ==
    /\ reqs' = [reqs EXCEPT ![s] = r]
    /\ last' = Request("get_db", r.pc, None, None)
    /\ SessionFrame

\* AsyncSessionLocal() and __aenter__: a new open session, then the yield.
AcquireSession(s) ==
    /\ s \notin DOMAIN reqs
    /\ reqs' = [x \in DOMAIN reqs \cup {s} |->
                   IF x = s
                   THEN [op |-> "get_db", pc |-> "yield", open |-> TRUE,
                         pending |-> FALSE, work |-> 0,
                         commits |-> 0, committed |-> FALSE, rollbacks |-> 0,
                         closes |-> 0, closeCalls |-> 0,
                         raised |-> None, out |-> None]
                   ELSE reqs[x]]
    /\ last' = Request("get_db", "yield", None, None)
    /\ SessionFrame

\* The caller's work calls a repository write: db.add / db.execute, then
\* await db.commit() on the request's session, which succeeds.
WorkCommit(s) ==
    /\ SessionAt(s, "yield") /\ reqs[s].work < MaxWork
    /\ SessionStepTo(s, [reqs[s] EXCEPT !.work = @ + 1, !.commits = @ + 1])

\* The caller's work raises e; an IntegrityError is raised by the flush of a
\* repository's commit and leaves the session's transaction to be rolled back.
\* Only an Exception is caught by "except Exception".
WorkRaise(s, e) ==
    /\ SessionAt(s, "yield")
    /\ SessionStepTo(s, [reqs[s] EXCEPT !.raised = Some(e),
                                        !.pending = (e = "IntegrityError"),
                                        !.pc = IF e \in Exceptions THEN "except"
                                               ELSE "finally"])

\* The caller's work returns: control continues after the yield.
WorkReturn(s) ==
    /\ SessionAt(s, "yield")
    /\ SessionStepTo(s, [reqs[s] EXCEPT !.pc = "commit"])

\* await session.commit() after the yield: it succeeds, or it raises and the
\* except clause is entered.
GetDbCommit(s, ok) ==
    /\ SessionAt(s, "commit")
    /\ SessionStepTo(s, IF ok
                        THEN [reqs[s] EXCEPT !.commits = @ + 1, !.committed = TRUE,
                                             !.pc = "finally"]
                        ELSE [reqs[s] EXCEPT !.raised = Some("IntegrityError"),
                                             !.pending = TRUE, !.pc = "except"])

\* except Exception: await session.rollback(); raise.
GetDbRollback(s) ==
    /\ SessionAt(s, "except")
    /\ SessionStepTo(s, [reqs[s] EXCEPT !.rollbacks = @ + 1, !.pending = FALSE,
                                        !.pc = "finally"])

\* A close of the session: an open session is closed (its transaction, if
\* any, is discarded); closing a closed session does nothing.
session_close(r) ==
    [r EXCEPT !.closeCalls = @ + 1,
              !.closes = IF r.open THEN @ + 1 ELSE @,
              !.open = FALSE, !.pending = FALSE]

\* finally: await session.close().
GetDbClose(s) ==
    /\ SessionAt(s, "finally")
    /\ SessionStepTo(s, [session_close(reqs[s]) EXCEPT !.pc = "aexit"])

\* __aexit__ of "async with": closes the session again, then the pending
\* error propagates to the caller or get_db returns.
AexitClose(s) ==
    /\ SessionAt(s, "aexit")
    /\ SessionStepTo(s, [session_close(reqs[s]) EXCEPT
                            !.pc = "done",
                            !.out = IF IsSome(reqs[s].raised) THEN reqs[s].raised
                                    ELSE Some("return")])

SessionStep(s) ==
    \/ WorkCommit(s)
    \/ \E e \in BaseExceptions : WorkRaise(s, e)
    \/ WorkReturn(s)
    \/ \E ok \in BOOLEAN : GetDbCommit(s, ok)
    \/ GetDbRollback(s)
    \/ GetDbClose(s)
    \/ AexitClose(s)

NextSession ==
    \/ \E s \in ReqSlots : AcquireSession(s)
    \/ \E s \in ReqSlots : SessionStep(s)

SpecSession == Init /\ [][NextSession]_vars

\* The event loop resumes every coroutine whose await has completed, and the
\* work of a request is finite: each request keeps taking its steps.
FairSpecSession == SpecSession /\ \A s \in ReqSlots : WF_vars(SessionStep(s))

\* C18 (safety): the session of a request is closed exactly once; when the
\* work completes normally the session is committed by get_db before it is
\* closed and get_db returns; when the work or the commit raises, the session
\* is rolled back, the same error leaves get_db, and the session is closed;
\* and no request both commits and rolls back its session.
C18_SessionLifecycle ==
    \A s \in DOMAIN reqs :
        LET r == reqs[s] IN
        /\ r.closes <= 1
        /\ ~r.open => (IsNone(r.raised) => r.committed)
        /\ ~(r.commits > 0 /\ r.rollbacks > 0)
        /\ r.pc = "done" =>
             /\ r.closes = 1 /\ ~r.open /\ ~r.pending
             /\ IsNone(r.raised) =>
                  (r.committed /\ r.rollbacks = 0 /\ r.out = Some("return"))
             /\ IsSome(r.raised) =>
                  (r.rollbacks = 1 /\ ~r.committed /\ r.out = r.raised)

\* C18 (liveness): every session that get_db acquired is eventually closed
\* and stays closed.
C18_EventuallyClosed ==
    \A s \in ReqSlots :
        (s \in DOMAIN reqs) ~> [](s \in DOMAIN reqs /\ ~reqs[s].open)

(* ============== the generic update of a row (SpecUpdate, C21) ========== *)
(* UserRepository.update, CardRepository.update and ShareRepository.update *)
(* share one body.  User, Card and Share carry TimestampMixin, so here     *)
(* the rows keep its updatedAt column.                                     *)

\* TimestampMixin: the rows of a table as created at time t.
TimestampMixin(tbl, t) ==
    [i \in DOMAIN tbl |-> [updatedAt |-> t] @@ tbl[i]]

\* Mutant: "if v" in place of "if v is not None": a false value is dropped.
card_update_truthy(cs, card_id, kwargs, t) ==
    LET update_data == {k \in DOMAIN kwargs :
                           IsSome(kwargs[k]) /\ (k = "isActive" => Val(kwargs[k]))}
        new == [i \in DOMAIN cs |->
                   IF i # card_id THEN cs[i]
                   ELSE [c \in DOMAIN cs[i] |->
                           IF c \in update_data THEN Val(kwargs[c])
                           ELSE IF c = "updatedAt" THEN t
                           ELSE cs[i][c]]]
    IN
    IF update_data = {} \/ card_id \notin DOMAIN cs THEN [err |-> "ok", cards |-> cs]
    ELSE IF ix_cards_qrCode(new) THEN [err |-> "ok", cards |-> new]
    ELSE [err |-> "IntegrityError", cards |-> cs]

\* CardRepository.update at time t (qrCode and isActive are NOT NULL columns).
CardRepository_update(cs, card_id, kwargs, t) ==
    LET update_data == {k \in DOMAIN kwargs : IsSome(kwargs[k])}
        new == [i \in DOMAIN cs |->
                   IF i # card_id THEN cs[i]
                   ELSE [c \in DOMAIN cs[i] |->
                           IF c \in update_data THEN Val(kwargs[c])
                           ELSE IF c = "updatedAt" THEN t
                           ELSE cs[i][c]]]
    IN
    IF update_data = {} \/ card_id \notin DOMAIN cs THEN [err |-> "ok", cards |-> cs]
    ELSE IF ix_cards_qrCode(new) THEN [err |-> "ok", cards |-> new]
    ELSE [err |-> "IntegrityError", cards |-> cs]

\* Keyword sets a caller of the card and share repositories may pass.
UserRowKwargs ==
    {kw \in UpdateKwargs :
        /\ Cardinality({c \in DOMAIN kw : IsSome(kw[c])}) <= 1
        /\ IsNone(kw.socialId)}
CardUpdateKwargs ==
    {kw \in [qrCode : {None, Some("q2")}, isActive : {None, Some(FALSE), Some(TRUE)}] :
        IsNone(kw.qrCode) \/ IsNone(kw.isActive)}
ShareRowKwargs ==
    {kw \in [password : {None, Some(hash_password("pw2"))},
             expiryDate : {None, Some(MaxTime)},
             isActive : {None, Some(FALSE)}] :
        \/ IsNone(kw.password) /\ IsNone(kw.expiryDate)
        \/ \A c \in DOMAIN kw : IsSome(kw[c])}

\* The rows were created at time 0 and the clock has moved on: a local and a
\* social user, an active and an inactive card, a share with a password and an
\* expiry date and a share with neither.
InitUpdate ==
    /\ now = 1
    /\ users = TimestampMixin(
                 UserService_create_social_user(
                   UserService_create_user(<< >>, "alice", "pw1").users,
                   "bob1", "kakao", "k1").users, 0)
    /\ refreshTokens = {}
    /\ cards = TimestampMixin(
                 [c \in CardIds |->
                    [isActive |-> (c = 1), qrCode |-> IF c = 1 THEN "q1" ELSE "q2"]], 0)
    /\ shares = TimestampMixin(
                  create_share(
                    create_share(<< >>, 1, 1, Some("pw1"), Some(ShareExpiryAt), "tA").shares,
                    2, 1, None, None, "tB").shares, 0)
    /\ activities = << >>
    /\ notifications = << >>
    /\ reqs = << >>
    /\ last = Request("init", "ok", None, None)

\* CardRepository.update(card_id, **kwargs).
UpdateCardRow(id, kwargs) ==
    /\ LET w == CardRepository_update(cards, id, kwargs, now) IN
       /\ cards' = w.cards
       /\ last' = Request("update_card", w.err, None, Some(id))
    /\ UNCHANGED <<now, users, refreshTokens, shares, activities, notifications, reqs>>

\* ShareRepository.update(share_id, **kwargs).
UpdateShareRow(id, kwargs) ==
    /\ shares' = ShareRepository_update(shares, id, kwargs, now)
    /\ last' = Request("update_share_row", "ok", None, Some(id))
    /\ UNCHANGED <<now, users, refreshTokens, cards, activities, notifications, reqs>>

NextUpdate ==
    \/ \E id \in DOMAIN users, kw \in UserRowKwargs : UpdateUser(id, kw)
    \/ \E id \in DOMAIN cards, kw \in CardUpdateKwargs : UpdateCardRow(id, kw)
    \/ \E id \in DOMAIN shares, kw \in ShareRowKwargs : UpdateShareRow(id, kw)

SpecUpdate == InitUpdate /\ [][NextUpdate]_vars

\* The value a keyword leaves in its column: NOT NULL columns hold the value,
\* nullable columns hold it as present.
Stored(c, v) == IF c \in {"isActive", "qrCode"} THEN Val(v) ELSE v

\* Row new is row old with exactly the passed keywords set, the columns in
\* free being allowed to differ.
SparseRow(old, new, kwargs, free) ==
    \A c \in DOMAIN old :
        IF c \in DOMAIN kwargs /\ IsSome(kwargs[c]) THEN new[c] = Stored(c, kwargs[c])
        ELSE c \in free \/ new[c] = old[c]

\* Table new is table old with row id updated sparsely and nothing else.
SparseTable(old, new, id, kwargs, free) ==
    /\ DOMAIN new = DOMAIN old
    /\ \A i \in DOMAIN old \ {id} : new[i] = old[i]
    /\ SparseRow(old[id], new[id], kwargs, free)
    /\ (\A c \in DOMAIN kwargs : IsNone(kwargs[c])) => new = old

\* The update steps of SpecUpdate satisfy the sparse-update rule, the columns
\* in free excepted.
SparseUpdates(free) ==
    /\ \A id \in DOMAIN users, kw \in UserRowKwargs :
         (last'.op = "update_user" /\ last'.status = "ok" /\ UpdateUser(id, kw)) =>
            SparseTable(users, users', id, kw, free)
    /\ \A id \in DOMAIN cards, kw \in CardUpdateKwargs :
         (last'.op = "update_card" /\ last'.status = "ok" /\ UpdateCardRow(id, kw)) =>
            SparseTable(cards, cards', id, kw, free)
    /\ \A id \in DOMAIN shares, kw \in ShareRowKwargs :
         (last'.op = "update_share_row" /\ UpdateShareRow(id, kw)) =>
            /\ SparseTable(shares, shares', id, kw, free)
            /\ IsSome(shares[id].password) => IsSome(shares'[id].password)
            /\ IsSome(shares[id].expiryDate) => IsSome(shares'[id].expiryDate)

\* C21 as stated: in a generic update of a User, Card or Share that succeeds,
\* every keyword passed as None keeps its stored value, every keyword passed
\* with a value (false included) is set to it, no other column of the row and
\* no other row changes, with all keywords None nothing changes; a share's
\* password or expiryDate, once set, stays set.
C21_SparseUpdate == [][SparseUpdates({})]_vars

\* C21 amended: as above, except that an update that writes at least one
\* column also sets the row's updatedAt to the time of the write, and that an
\* update rejected by a constraint raises IntegrityError and changes nothing.
C21_SparseUpdateStamped ==
    [][/\ SparseUpdates({"updatedAt"})
       /\ \A id \in DOMAIN users, kw \in UserRowKwargs :
            (last'.op = "update_user" /\ UpdateUser(id, kw)) =>
              /\ last'.status \in {"ok", "IntegrityError"}
              /\ last'.status = "IntegrityError" => users' = users
              /\ (last'.status = "ok" /\ \E c \in DOMAIN kw : IsSome(kw[c])) =>
                    users'[id].updatedAt = now
       /\ \A id \in DOMAIN cards, kw \in CardUpdateKwargs :
            (last'.op = "update_card" /\ UpdateCardRow(id, kw)) =>
              /\ last'.status \in {"ok", "IntegrityError"}
              /\ last'.status = "IntegrityError" => cards' = cards
              /\ (last'.status = "ok" /\ \E c \in DOMAIN kw : IsSome(kw[c])) =>
                    cards'[id].updatedAt = now
       /\ \A id \in DOMAIN shares, kw \in ShareRowKwargs :
            (/\ last'.op = "update_share_row"
             /\ UpdateShareRow(id, kw)
             /\ \E c \in DOMAIN kw : IsSome(kw[c])) =>
              shares'[id].updatedAt = now]_vars

\* A card deactivated by an update that passed isActive=False and nothing
\* else, beside a share that still has its password and expiry date after an
\* update of its isActive.
C21_Witness ==
    /\ last.op = "update_card" /\ last.status = "ok"
    /\ ~cards[1].isActive /\ cards[1].qrCode = "q1" /\ cards[1].updatedAt = now
    /\ ~shares[1].isActive /\ IsSome(shares[1].password) /\ IsSome(shares[1].expiryDate)
    /\ shares[2].updatedAt = 0

(* ========= bulk revocation and cleanup (SpecTokens, C22, C23) ========== *)
\* Mutant: the bulk revocation without its userId filter.
revoke_all_tokens_of_anyone(rts, user_id, t) ==
    [count  |-> Cardinality({r \in rts : ~r.isRevoked}),
     tokens |-> {IF ~r.isRevoked
                 THEN [r EXCEPT !.isRevoked = TRUE, !.revokedAt = Some(t)]
                 ELSE r : r \in rts}]

\* RefreshTokenRepository.revoke_all_user_tokens: select the user's records
\* with isRevoked false, mark each, commit, return how many.
RefreshTokenRepository_revoke_all_user_tokens(rts, user_id, t) ==
    LET tokens == {r \in rts : r.userId = user_id /\ ~r.isRevoked} IN
    [count  |-> Cardinality(tokens),
     tokens |-> {IF r \in tokens
                 THEN [r EXCEPT !.isRevoked = TRUE, !.revokedAt = Some(t)]
                 ELSE r : r \in rts}]

\* Mutant: a cleanup that also deletes the records expiring at this instant.
cleanup_expired_inclusive(rts, t) ==
    [count  |-> Cardinality({r \in rts : r.expiresAt <= t}),
     tokens |-> {r \in rts : ~(r.expiresAt <= t)}]

\* RefreshTokenRepository.cleanup_expired_tokes: select the records with
\* expiresAt < utcnow(), delete each, commit, return how many.
RefreshTokenRepository_cleanup_expired_tokes(rts, t) ==
    LET expired_tokens == {r \in rts : r.expiresAt < t} IN
    [count |-> Cardinality(expired_tokens), tokens |-> rts \ expired_tokens]

RevokeAllUserTokens(u) ==
    /\ LET r == RefreshTokenRepository_revoke_all_user_tokens(refreshTokens, u, now) IN
       /\ refreshTokens' = r.tokens
       /\ last' = Request("revoke_all_user_tokens", "ok", None, Some([count |-> r.count]))
    /\ UNCHANGED <<now, users>>
    /\ AuthFrame

CleanupExpiredTokens ==
    /\ LET r == RefreshTokenRepository_cleanup_expired_tokes(refreshTokens, now) IN
       /\ refreshTokens' = r.tokens
       /\ last' = Request("cleanup_expired_tokes", "ok", None, Some([count |-> r.count]))
    /\ UNCHANGED <<now, users>>
    /\ AuthFrame

\* Two stored users log in while the clock advances; their tokens are revoked
\* in bulk and cleaned up.
NextTokens ==
    \/ Tick
    \/ \E h \in RecordHandles : Login(h, "pw1")
    \/ \E u \in DOMAIN users : RevokeAllUserTokens(u)
    \/ CleanupExpiredTokens

SpecTokens == InitShares /\ [][NextTokens]_vars


\* C22: revoke_all_user_tokens(u) marks as revoked every record of u that was
\* not revoked and returns their number; the already-revoked records of u and
\* the records of other users are unchanged; afterwards every record of u is
\* revoked and refresh_access_token rejects each refresh token of u.
C22_RevokeAllUserTokens ==
    [][\A u \in DOMAIN users :
         (last'.op = "revoke_all_user_tokens" /\ RevokeAllUserTokens(u)) =>
           LET changed == {r \in refreshTokens : r.userId = u /\ ~r.isRevoked} IN
           /\ Val(last'.ret).count = Cardinality(changed)
           /\ Cardinality(refreshTokens') = Cardinality(refreshTokens)
           /\ \A r \in changed :
                [r EXCEPT !.isRevoked = TRUE, !.revokedAt = Some(now)] \in refreshTokens'
           /\ \A r \in refreshTokens \ changed : r \in refreshTokens'
           /\ \A r \in refreshTokens' :
                r.userId = u =>
                  /\ r.isRevoked
                  /\ refresh_access_token(users', refreshTokens', now',
                                          r.token.sha256).status = "Unauthorized"]_vars

\* A bulk revocation that changed a record of its user, left an older revoked
\* record of that user alone, and left a valid record of the other user.
C22_Witness ==
    /\ last.op = "revoke_all_user_tokens" /\ Val(last.ret).count >= 1
    /\ \E u \in DOMAIN users :
         /\ \A r \in refreshTokens : r.userId = u => r.isRevoked
         /\ \E r \in refreshTokens : r.userId = u /\ r.revokedAt = Some(now)
         /\ \E r \in refreshTokens :
               r.userId = u /\ IsSome(r.revokedAt) /\ Val(r.revokedAt) < now
         /\ \E r \in refreshTokens : r.userId # u /\ is_valid(r, now)

\* C23: cleanup_expired_tokes deletes exactly the records whose expiresAt has
\* passed, revoked or not, returns their number, leaves every other record as
\* it was, and never deletes a record that is_valid accepts at that instant.
C23_CleanupExpired ==
    [][(last'.op = "cleanup_expired_tokes" /\ CleanupExpiredTokens) =>
         /\ refreshTokens' = {r \in refreshTokens : ~(r.expiresAt < now)}
         /\ Val(last'.ret).count
              = Cardinality(refreshTokens) - Cardinality(refreshTokens')
         /\ \A r \in refreshTokens : is_valid(r, now) => r \in refreshTokens']_vars

\* A cleanup that deleted a revoked record and kept a valid record expiring
\* at this very instant.
C23_Witness ==
    /\ last.op = "cleanup_expired_tokes" /\ Val(last.ret).count >= 1
    /\ \E r \in refreshTokens : r.expiresAt = now /\ is_valid(r, now)
    /\ \A r \in refreshTokens : ~(r.expiresAt < now)

(* ============== activity aggregates (SpecStats, C24) =================== *)
\* func.max over a non-empty set of instants.
func_max(S) == CHOOSE x \in S : \A y \in S : y <= x

\* UserCardActivityRepository.get_stats: three aggregates over the rows of
\* the user, each read from the same table contents.
get_stats(acts, userId) ==
    LET mine == {i \in DOMAIN acts : acts[i].userId = userId} IN
    [totalActivities |-> Cardinality(mine),
     uniqueCards |-> Cardinality({acts[i].cardId : i \in mine}),
     recentActivityDate |->
         IF mine = {} THEN None
         ELSE Some(func_max({acts[i].completedAt : i \in mine}))]

\* The grouped subquery of get_user_completed_cards: one row per cardId of
\* the user's activities, with max(completedAt) and count(id).
completed_subquery(acts, userId) ==
    {[cardId |-> c,
      lastActivityDate |->
          func_max({acts[i].completedAt :
                      i \in {j \in DOMAIN acts :
                               acts[j].userId = userId /\ acts[j].cardId = c}}),
      activityCount |->
          Cardinality({j \in DOMAIN acts :
                         acts[j].userId = userId /\ acts[j].cardId = c})] :
        c \in {acts[i].cardId : i \in {j \in DOMAIN acts : acts[j].userId = userId}}}

\* Mutant: the join restricted to active cards.
completed_cards_active_only(acts, cs, userId) ==
    {r \in completed_subquery(acts, userId) :
        r.cardId \in DOMAIN cs /\ cs[r.cardId].isActive}

\* UserCardActivityRepository.get_user_completed_cards without activityType,
\* within the first page: the subquery joined to cards on Card.id = cardId.
get_user_completed_cards(acts, cs, userId) ==
    {r \in completed_subquery(acts, userId) : r.cardId \in DOMAIN cs}

\* Two stored users and two stored active cards.
InitStats ==
    /\ now = 0
    /\ users = UserService_create_user(
                   UserService_create_user(<< >>, "alice", "pw1").users,
                   "bob1", "pw1").users
    /\ refreshTokens = {}
    /\ cards = [c \in CardIds |->
                   [isActive |-> TRUE, qrCode |-> IF c = 1 THEN "q1" ELSE "q2"]]
    /\ shares = << >>
    /\ activities = << >>
    /\ notifications = << >>
    /\ reqs = << >>
    /\ last = Request("init", "ok", None, None)

StatsFrame ==
    UNCHANGED <<now, users, refreshTokens, cards, shares, activities,
                notifications, reqs>>

\* UserCardActivityService.get_activity_stats
GetStats(u) ==
    /\ last' = Request("get_stats", "ok", None,
                       Some([userId |-> u, stats |-> get_stats(activities, u)]))
    /\ StatsFrame

\* UserCardActivityService.get_user_completed_cards
GetUserCompletedCards(u) ==
    /\ last' = Request("get_user_completed_cards", "ok", None,
                       Some([userId |-> u,
                             rows |-> get_user_completed_cards(activities, cards, u)]))
    /\ StatsFrame

NextStats ==
    \/ Tick
    \/ \E uid \in DOMAIN users, cid \in CardIds : CreateActivity(uid, cid, "r1")
    \/ \E cid \in CardIds : DeactivateCard(cid)
    \/ \E cid \in CardIds : DeleteCard(cid)
    \/ \E u \in DOMAIN users : GetStats(u)
    \/ \E u \in DOMAIN users : GetUserCompletedCards(u)

SpecStats == InitStats /\ [][NextStats]_vars

RECURSIVE SumActivityCount(_)
SumActivityCount(rows) ==
    IF rows = {} THEN 0
    ELSE LET r == CHOOSE x \in rows : TRUE IN
         r.activityCount + SumActivityCount(rows \ {r})

\* C24: in every state and for every user, get_stats returns totalActivities
\* = the number of the user's activity records, uniqueCards = the number of
\* distinct cards among them (so uniqueCards <= totalActivities, and zero
\* together), recentActivityDate absent iff there are none; and
\* get_user_completed_cards returns uniqueCards rows, one per distinct card,
\* whose activityCount sum to totalActivities and whose largest
\* lastActivityDate is recentActivityDate.  What the two reads returned last is
\* what they return in the state reached.
C24_AggregatesConsistent ==
    /\ \A u \in DOMAIN users :
         LET st   == get_stats(activities, u)
             rows == get_user_completed_cards(activities, cards, u)
             mine == {i \in DOMAIN activities : activities[i].userId = u}
         IN
         /\ st.totalActivities = Cardinality(mine)
         /\ st.uniqueCards = Cardinality({activities[i].cardId : i \in mine})
         /\ st.uniqueCards <= st.totalActivities
         /\ st.uniqueCards = 0 <=> st.totalActivities = 0
         /\ IsNone(st.recentActivityDate) <=> mine = {}
         /\ Cardinality(rows) = st.uniqueCards
         /\ {r.cardId : r \in rows} = {activities[i].cardId : i \in mine}
         /\ \A r1, r2 \in rows : r1.cardId = r2.cardId => r1 = r2
         /\ SumActivityCount(rows) = st.totalActivities
         /\ rows # {} =>
              func_max({r.lastActivityDate : r \in rows}) = Val(st.recentActivityDate)
    /\ last.op = "get_stats" =>
         Val(last.ret).stats = get_stats(activities, Val(last.ret).userId)
    /\ last.op = "get_user_completed_cards" =>
         Val(last.ret).rows
           = get_user_completed_cards(activities, cards, Val(last.ret).userId)

\* get_user_completed_cards has just returned two rows for a user with two
\* activities at different times on different cards, one of them deactivated.
C24_Witness ==
    /\ last.op = "get_user_completed_cards"
    /\ Cardinality(Val(last.ret).rows) = 2
    /\ \E r1, r2 \in Val(last.ret).rows : r1.lastActivityDate < r2.lastActivityDate
    /\ \E c \in DOMAIN cards : ~cards[c].isActive
    /\ get_stats(activities, Val(last.ret).userId).totalActivities = 2

(* ===================== claims C26 - C28 (Spec) ========================= *)
\* C26: refresh_access_token is all-or-nothing on the refresh-token store: a
\* call that ends in an error, at any of its steps, leaves the table as it
\* was (the presented record not newly revoked, no new record), and the
\* presented record becomes revoked only in calls that return a new pair.
C26_RefreshAllOrNothing ==
    [][\A tok \in Presentable :
         Refresh(tok) =>
           /\ last'.status # "ok" => refreshTokens' = refreshTokens
           /\ (\E r \in RecordsOf(refreshTokens, tok) :
                 ~r.isRevoked /\ \A q \in RecordsOf(refreshTokens', tok) : q.isRevoked)
                => last'.status = "ok"]_vars

\* C27: every refresh token issued by login or by refresh_access_token has a
\* digest that is not yet stored, also for issuances to one user within one
\* clock second: persisting the new record never fails on the uniqueness of
\* RefreshToken.token, and the token a refresh returns differs from the one
\* presented.
C27_IssuedTokensFresh ==
    [][/\ \A h \in AliceHandles, p \in Passwords :
            Login(h, p) =>
              /\ last'.status # "IntegrityError"
              /\ last'.status = "ok" =>
                   \A r \in refreshTokens :
                       r.token # sha256(Val(last'.ret).refreshToken)
       /\ \A tok \in Presentable :
            Refresh(tok) =>
              /\ last'.status # "IntegrityError"
              /\ last'.status = "ok" =>
                   /\ Val(last'.ret).refreshToken # tok
                   /\ \A r \in refreshTokens :
                        r.token # sha256(Val(last'.ret).refreshToken)]_vars

\* C28: register then login round-trips.  For every handle H that registration
\* accepts, upper-case letters included, and every password P: once
\* register(H, P) has stored the account and while it is active, the login
\* with the same H and P (the first login of the account) succeeds.
C28_RegisterLoginRoundTrip ==
    [][\A h \in AliceHandles, p \in Passwords :
         (/\ Login(h, p)
          /\ refreshTokens = {}
          /\ \E i \in DOMAIN users :
                /\ users[i].userId = validate_userId(h)
                /\ IsSome(users[i].password)
                /\ verify_password(p, Val(users[i].password))
                /\ users[i].isActive)
         => last'.status = "ok"]_vars

(* ========== concurrent refresh of one token (SpecRefresh, C25) ========= *)
(* refresh_access_token awaits the database four times: the lookup of the  *)
(* presented record, the lookup of the user, the revocation and the insert *)
(* of the new record.  Requests run in their own sessions and interleave   *)
(* at these awaits; the clock may advance in between.                      *)
RefreshFrame ==
    UNCHANGED <<now, users, cards, shares, activities, notifications>>

\* The request in slot s ends with the given status and returned value.
RefreshDone(s, status, ret) ==
    /\ reqs' = [reqs EXCEPT ![s].pc = "done", ![s].status = status, ![s].ret = ret]
    /\ last' = Request("refresh", status, None, None)

\* POST /auth/refresh arrives; steps 1-3: verify_token, get_by_token and
\* is_valid on the row just loaded.
RefreshLookup(s, tok) ==
    /\ s \notin DOMAIN reqs
    /\ LET user_id == verify_token(tok, "refresh", now)
           stored  == RefreshTokenRepository_get_by_token(refreshTokens, sha256(tok))
           rejected == \/ IsNone(user_id)
                       \/ stored = {}
                       \/ ~is_valid(CHOOSE r \in stored : TRUE, now)
       IN
       /\ reqs' = [x \in DOMAIN reqs \cup {s} |->
                      IF x = s
                      THEN [op |-> "refresh", token |-> tok, user_id |-> user_id,
                            pc |-> IF rejected THEN "done" ELSE "get_user",
                            status |-> IF rejected THEN "Unauthorized" ELSE "",
                            ret |-> None]
                      ELSE reqs[x]]
       /\ last' = Request("refresh", IF rejected THEN "Unauthorized" ELSE "lookup",
                          None, None)
    /\ UNCHANGED refreshTokens
    /\ RefreshFrame

\* Steps 4-5: get_user_by_id and the isActive check.
RefreshGetUser(s) ==
    /\ s \in DOMAIN reqs /\ reqs[s].op = "refresh" /\ reqs[s].pc = "get_user"
    /\ LET id == Val(reqs[s].user_id) IN
       IF UserRepository_get_by_id(users, id) = {}
       THEN RefreshDone(s, "Unauthorized", None)
       ELSE IF ~users[id].isActive
       THEN RefreshDone(s, "Forbidden", None)
       ELSE /\ reqs' = [reqs EXCEPT ![s].pc = "revoke"]
            /\ last' = Request("refresh", "get_user", None, None)
    /\ UNCHANGED refreshTokens
    /\ RefreshFrame

\* Step 6: revoke_token on the presented digest, committed.
RefreshRevoke(s) ==
    /\ s \in DOMAIN reqs /\ reqs[s].op = "refresh" /\ reqs[s].pc = "revoke"
    /\ refreshTokens' = RefreshTokenRepository_revoke_token(
                            refreshTokens, sha256(reqs[s].token), now).tokens
    /\ reqs' = [reqs EXCEPT ![s].pc = "create"]
    /\ last' = Request("refresh", "revoke", None, None)
    /\ RefreshFrame

\* Steps 7-8: the new pair is built from the clock and the new record is
\* inserted; a duplicate digest raises IntegrityError.
RefreshCreate(s) ==
    /\ s \in DOMAIN reqs /\ reqs[s].op = "refresh" /\ reqs[s].pc = "create"
    /\ LET id == Val(reqs[s].user_id)
           new_access_token  == create_access_token(id, now)
           new_refresh_token == create_refresh_token(id, now)
           c == RefreshTokenRepository_create(refreshTokens, id,
                                              sha256(new_refresh_token), now)
       IN
       /\ refreshTokens' = c.tokens
       /\ IF c.err # "ok" THEN RefreshDone(s, c.err, None)
          ELSE RefreshDone(s, "ok", Some([accessToken |-> new_access_token,
                                          refreshToken |-> new_refresh_token]))
    /\ RefreshFrame

\* One stored user logs in; clients refresh concurrently.
LoginOnce ==
    /\ refreshTokens = {}
    /\ Login("alice", "pw1")

NextRefresh ==
    \/ Tick
    \/ LoginOnce
    \/ \E s \in ReqSlots, tok \in IssuedRefresh : RefreshLookup(s, tok)
    \/ \E s \in ReqSlots : RefreshGetUser(s)
    \/ \E s \in ReqSlots : RefreshRevoke(s)
    \/ \E s \in ReqSlots : RefreshCreate(s)

SpecRefresh == InitShares /\ [][NextRefresh]_vars

\* C25: of the refresh_access_token calls that present the same refresh token,
\* at most one returns a new pair, and the records that succeed one token
\* (issued by calls presenting it) are never two valid ones.
C25_ConcurrentRefreshSingleUse ==
    \A s1, s2 \in DOMAIN reqs :
        (/\ s1 # s2
         /\ reqs[s1].token = reqs[s2].token
         /\ reqs[s1].pc = "done" /\ reqs[s2].pc = "done")
        => ~(reqs[s1].status = "ok" /\ reqs[s2].status = "ok")

(* ================ the exposed routes (SpecRoutes, C29) ================== *)
(* Every route of routers/v1 that writes, with the dependency it declares: *)
(* the users, shares and activities routes take get_current_active_user,   *)
(* the auth routes take the payload only, the cards routes only read.      *)

\* schemas.UserUpdate as update_me passes it on: the profile fields only
\* (userName stands for the five of them).
UserUpdate == [userName : {None, Some("n2")}]

\* UserService.update_user_profile: the given profile fields, then
\* UserRepository.update; 404 when the row is gone.
update_user_profile(us, user_id, profile, t) ==
    LET w == UserRepository_update(us, user_id, profile, t) IN
    IF w.err # "ok" THEN [status |-> w.err, users |-> w.users]
    ELSE IF UserRepository_get_by_id(w.users, user_id) = {}
    THEN [status |-> "NotFound", users |-> w.users]
    ELSE [status |-> "ok", users |-> w.users]

\* One account registered with its profile, the two cards, and a share the
\* account owns.
InitRoutes ==
    /\ now = 0
    /\ users = [i \in {1} |->
                   [userName |-> Some("n1")]
                   @@ UserService_create_user(<< >>, "alice", "pw1").users[1]]
    /\ refreshTokens = {}
    /\ cards = [c \in CardIds |->
                   [isActive |-> (c = 1), qrCode |-> IF c = 1 THEN "q1" ELSE "q2"]]
    /\ shares = create_share(<< >>, 1, 1, None, None, "tA").shares
    /\ activities = << >>
    /\ notifications = << >>
    /\ reqs = << >>
    /\ last = Request("init", "ok", None, None)

\* The answer of a route and the tables it leaves alone.
RouteAnswer(op, status, tok) == last' = Request(op, status, Some(tok), None)

\* POST /auth/logout: no dependency, no service call.
LogoutRoute ==
    /\ last' = Request("logout_route", "ok", None, None)
    /\ UNCHANGED <<now, users, refreshTokens, cards, shares, activities,
                   notifications, reqs>>

\* PATCH /users/me
UpdateMe(tok, user_data) ==
    /\ LET g == get_current_active_user(users, now, tok) IN
       IF g.status # "ok"
       THEN RouteAnswer("update_me", g.status, tok) /\ UNCHANGED users
       ELSE LET r == update_user_profile(users, Val(g.user), user_data, now) IN
            RouteAnswer("update_me", r.status, tok) /\ users' = r.users
    /\ UNCHANGED <<now, refreshTokens, cards, shares, activities, notifications, reqs>>

\* POST /users/me/password
ChangePassword(tok, cur, new) ==
    /\ LET g == get_current_active_user(users, now, tok) IN
       IF g.status # "ok"
       THEN RouteAnswer("change_password", g.status, tok) /\ UNCHANGED users
       ELSE LET w == change_password_with_validation(users, Val(g.user), cur, new) IN
            RouteAnswer("change_password", w.err, tok) /\ users' = w.users
    /\ UNCHANGED <<now, refreshTokens, cards, shares, activities, notifications, reqs>>

\* POST /activities
PostActivities(tok, cid, result) ==
    /\ Cardinality(DOMAIN activities) < MaxActivities
    /\ LET g == get_current_active_user(users, now, tok) IN
       IF g.status # "ok"
       THEN RouteAnswer("post_activities", g.status, tok) /\ UNCHANGED activities
       ELSE LET w == create_activity_with_validation(activities, users, cards, now,
                                                     Val(g.user), cid, result) IN
            RouteAnswer("post_activities", w.err, tok) /\ activities' = w.activities
    /\ UNCHANGED <<now, users, refreshTokens, cards, shares, notifications, reqs>>

\* POST /shares
PostShares(tok, cid, pw, days) ==
    /\ Cardinality(DOMAIN shares) < MaxShares
    /\ LET g    == get_current_active_user(users, now, tok)
           body == ShareCreate(cid, pw, days)
       IN
       IF g.status # "ok"
       THEN RouteAnswer("post_shares", g.status, tok) /\ UNCHANGED shares
       ELSE IF body.err # "ok"
       THEN RouteAnswer("post_shares", body.err, tok) /\ UNCHANGED shares
       ELSE LET expiryDate == getattr(Val(body.value), "expiryDate") IN
            IF expiryDate.err # "ok"
            THEN RouteAnswer("post_shares", expiryDate.err, tok) /\ UNCHANGED shares
            ELSE IF get_active_card_by_id(cards, cid) # "ok"
            THEN RouteAnswer("post_shares", "NotFound", tok) /\ UNCHANGED shares
            ELSE \E st \in generate_share_token :
                    /\ ShareRepository_get_by_token(shares, st) = {}
                    /\ LET w == create_share(shares, Val(g.user), cid, pw,
                                             expiryDate.value, st) IN
                       RouteAnswer("post_shares", w.err, tok) /\ shares' = w.shares
    /\ UNCHANGED <<now, users, refreshTokens, cards, activities, notifications, reqs>>

\* PATCH /shares/{share_id}
PatchShare(tok, id, kwargs) ==
    /\ LET g == get_current_active_user(users, now, tok) IN
       IF g.status # "ok"
       THEN RouteAnswer("patch_share", g.status, tok) /\ UNCHANGED shares
       ELSE LET r == update_share_with_validation(shares, id, Val(g.user), kwargs, now) IN
            RouteAnswer("patch_share", r.status, tok) /\ shares' = r.shares
    /\ UNCHANGED <<now, users, refreshTokens, cards, activities, notifications, reqs>>

\* DELETE /shares/{share_id}
DeleteShareRoute(tok, id) ==
    /\ LET g == get_current_active_user(users, now, tok) IN
       IF g.status # "ok"
       THEN RouteAnswer("delete_share_route", g.status, tok) /\ UNCHANGED shares
       ELSE LET r == delete_share_with_validation(shares, id, Val(g.user)) IN
            RouteAnswer("delete_share_route", r.status, tok) /\ shares' = r.shares
    /\ UNCHANGED <<now, users, refreshTokens, cards, activities, notifications, reqs>>

\* GET /cards/{card_id} with get_optional_user: the user is loaded and not
\* used, nothing is written.
GetCardRoute(tok, id) ==
    /\ RouteAnswer("get_card_route", get_card(cards, id).status, tok)
    /\ UNCHANGED <<now, users, refreshTokens, cards, shares, activities,
                   notifications, reqs>>

\* Number of refresh-token records the route scenarios let the table hold.
MaxSessions == 2
\* Last clock tick of the route scenarios.
MaxRouteTime == 2

NextRoutes ==
    \/ now < MaxRouteTime /\ Tick
    \/ \E h \in AliceHandles : Register(h, "pw1")
    \/ \E h \in AliceHandles, p \in Passwords :
          Cardinality(refreshTokens) < MaxSessions /\ Login(h, p)
    \/ \E tok \in IssuedRefresh :
          Cardinality(refreshTokens) < MaxSessions /\ Refresh(tok)
    \/ LogoutRoute
    \/ \E tok \in IssuedAccess : Withdraw(tok)
    \/ \E tok \in IssuedAccess : GetMe(tok)
    \/ \E tok \in IssuedAccess, user_data \in UserUpdate : UpdateMe(tok, user_data)
    \/ \E tok \in IssuedAccess : ChangePassword(tok, "pw1", "pw2")
    \/ \E tok \in IssuedAccess : PostActivities(tok, 1, "r1")
    \/ \E tok \in IssuedAccess : PostShares(tok, 1, None, None)
    \/ \E tok \in IssuedAccess : PatchShare(tok, 1, [password |-> None,
                                      expiryDate |-> None, isActive |-> Some(FALSE)])
    \/ \E tok \in IssuedAccess : DeleteShareRoute(tok, 1)
    \/ \E tok \in IssuedAccess : GetCardRoute(tok, 1)

SpecRoutes == InitRoutes /\ [][NextRoutes]_vars

\* The rows of a table that belong to user u.
RowsOf(tbl, u) == {i \in DOMAIN tbl : tbl[i].userId = u}

\* C29: once a user's isActive is false, no request to the auth, users, cards,
\* activities or shares routes sets it back to true, and none of them creates
\* a refresh-token record, a share or an activity for that user.
C29_DeactivationPermanent ==
    [][\A u \in DOMAIN users :
          ~users[u].isActive =>
             /\ u \in DOMAIN users' /\ ~users'[u].isActive
             /\ {r.token : r \in {x \in refreshTokens' : x.userId = u}}
                   \subseteq {r.token : r \in {x \in refreshTokens : x.userId = u}}
             /\ \A i \in RowsOf(shares', u) :
                   i \in RowsOf(shares, u) /\ shares'[i].shareToken = shares[i].shareToken
             /\ \A i \in RowsOf(activities', u) :
                   i \in RowsOf(activities, u) /\ activities'[i] = activities[i]]_vars

\* A withdrawn user who still holds an unexpired access token asks for a new
\* activity and is refused.
C29_Witness ==
    /\ \E u \in DOMAIN users : ~users[u].isActive
    /\ last.op = "post_activities" /\ last.status = "Forbidden"

(* ------ the frame of a password change and of a withdrawal (C30) ------- *)
\* What redeeming the refresh token tok would answer in the given tables.
Redeem(us, rts, t, tok) ==
    LET r == refresh_access_token(us, rts, t, tok) IN <<r.status, r.ret, r.tokens>>

\* The users table differs from us only in column c of row u.
OnlyColumn(us, us2, u, c) ==
    /\ DOMAIN us2 = DOMAIN us
    /\ \A i \in DOMAIN us :
          /\ DOMAIN us2[i] = DOMAIN us[i]
          /\ \A k \in DOMAIN us[i] : (i # u \/ k # c) => us2[i][k] = us[i][k]

====
